---- MODULE Spec2Model ----
(***************************************************************************)
(* Model of the streaming change-extraction engine of btrfs-snapshot-viz   *)
(* (app/services/btrfs-stream.server.ts): the line parser, the orphan      *)
(* resolver, the change aggregator, the stream driver with its subprocess, *)
(* the result cache and the consumers of the event stream.                 *)
(*                                                                         *)
(* JavaScript strings are modelled as sequences of one-character strings,  *)
(* so that the regular expressions and the character scans of the source   *)
(* are computed, not assumed.                                              *)
(***************************************************************************)
EXTENDS Integers, Sequences, FiniteSets, TLC

(***************************************************************************)
(* Text primitives                                                         *)
(***************************************************************************)
SetMin(S) == CHOOSE x \in S : \A y \in S : x <= y

SetMax(S) == CHOOSE x \in S : \A y \in S : x >= y

DigitChars == <<"0", "1", "2", "3", "4", "5", "6", "7", "8", "9">>

LowerChars == <<"a", "b", "c", "d", "e", "f", "g", "h", "i", "j", "k", "l", "m", "n", "o", "p", "q", "r", "s", "t", "u", "v", "w", "x", "y", "z">>

UpperChars == <<"A", "B", "C", "D", "E", "F", "G", "H", "I", "J", "K", "L", "M", "N", "O", "P", "Q", "R", "S", "T", "U", "V", "W", "X", "Y", "Z">>

\* code points 32..126, in order (the grave accent is written U+0060)
AsciiChars == <<" ", "!", "\"", "#", "$", "%", "&", "'", "(", ")", "*", "+", ",", "-", ".", "/", "0", "1", "2", "3", "4", "5", "6", "7", "8", "9", ":", ";", "<", "=", ">", "?", "@", "A", "B", "C", "D", "E", "F", "G", "H", "I", "J", "K", "L", "M", "N", "O", "P", "Q", "R", "S", "T", "U", "V", "W", "X", "Y", "Z", "[", "\\", "]", "^", "_", "U+0060", "a", "b", "c", "d", "e", "f", "g", "h", "i", "j", "k", "l", "m", "n", "o", "p", "q", "r", "s", "t", "u", "v", "w", "x", "y", "z", "{", "|", "}", "~">>

\* what a byte outside 32..126 decodes to in this model (U+FFFD and control bytes)
ReplacementChar == "U+FFFD"

IsDigit(c) == \E i \in 1..10 : DigitChars[i] = c

DigitVal(c) == (CHOOSE i \in 1..10 : DigitChars[i] = c) - 1

IsOctal(c) == IsDigit(c) /\ DigitVal(c) <= 7

IsUpper(c) == \E i \in 1..26 : UpperChars[i] = c

\* \w of the regular expressions
IsWordChar(c) == IsDigit(c) \/ c = "_" \/ IsUpper(c) \/ \E i \in 1..26 : LowerChars[i] = c

\* \s of the regular expressions (the whitespace that occurs in dump lines)
IsSpace(c) == c \in {" ", "\t"}

toLowerCase(s) ==
  [i \in 1..Len(s) |->
     IF IsUpper(s[i]) THEN LowerChars[CHOOSE k \in 1..26 : UpperChars[k] = s[i]] ELSE s[i]]

\* s has p at (1-based) position i
StartsAt(s, i, p) == i >= 1 /\ i + Len(p) - 1 <= Len(s) /\ SubSeq(s, i, i + Len(p) - 1) = p

startsWith(s, p) == StartsAt(s, 1, p)

\* length of the longest run of characters satisfying P that starts at position i
RunLen(s, i, P(_)) ==
  LET bad == {j \in i..Len(s) : ~P(s[j])}
  IN  IF i > Len(s) THEN 0
      ELSE IF bad = {} THEN Len(s) - i + 1 ELSE SetMin(bad) - i

RECURSIVE parseInt(_, _)
parseInt(ds, base) ==
  IF ds = <<>> THEN 0
  ELSE parseInt(SubSeq(ds, 1, Len(ds) - 1), base) * base + DigitVal(ds[Len(ds)])

trim(s) ==
  LET keep == {i \in 1..Len(s) : ~IsSpace(s[i])}
  IN  IF keep = {} THEN <<>> ELSE SubSeq(s, SetMin(keep), SetMax(keep))

\* Buffer.from(bytes).toString("utf-8") on one byte value
ByteChar(b) == IF b % 256 \in 32..126 THEN AsciiChars[(b % 256) - 31] ELSE ReplacementChar

(***************************************************************************)
(* PathCodec and LineParser                                                *)
(***************************************************************************)
AttrKeys == {<<"o", "f", "f", "s", "e", "t">>,
             <<"l", "e", "n">>,
             <<"a", "t", "i", "m", "e">>,
             <<"m", "t", "i", "m", "e">>,
             <<"c", "t", "i", "m", "e">>,
             <<"m", "o", "d", "e">>,
             <<"u", "i", "d">>,
             <<"g", "i", "d">>,
             <<"d", "e", "s", "t">>,
             <<"u", "u", "i", "d">>,
             <<"t", "r", "a", "n", "s", "i", "d">>,
             <<"p", "a", "r", "e", "n", "t", "_", "u", "u", "i", "d">>,
             <<"p", "a", "r", "e", "n", "t", "_", "t", "r", "a", "n", "s", "i", "d">>,
             <<"n", "a", "m", "e">>}

AttrAt(str, i) == \E k \in AttrKeys : StartsAt(str, i, k \o <<"=">>)

RECURSIVE ExtractFrom(_, _, _)
ExtractFrom(str, i, bytes) ==
  IF i > Len(str) THEN bytes
  ELSE IF str[i] = "\\" /\ i + 1 <= Len(str) THEN
    LET n == RunLen(str, i + 1, IsOctal)
        oc == IF n > 3 THEN 3 ELSE n
    IN  IF oc > 0
        THEN ExtractFrom(str, i + 1 + oc,
                         Append(bytes, ByteChar(parseInt(SubSeq(str, i + 1, i + oc), 8))))
        ELSE ExtractFrom(str, i + 2, Append(bytes, str[i + 1]))
  ELSE IF str[i] = " " THEN
    IF StartsAt(str, i, <<" ", "-", ">", " ">>) THEN bytes
    ELSE IF AttrAt(str, i + 1) THEN bytes
    ELSE ExtractFrom(str, i + 1, Append(bytes, str[i]))
  ELSE ExtractFrom(str, i + 1, Append(bytes, str[i]))

extractPath(str) == ExtractFrom(str, 1, <<>>)

stripSnapshotPrefix(path) ==
  LET p == IF startsWith(path, <<".", "/">>) THEN SubSeq(path, 3, Len(path)) ELSE path
      slashes == {i \in 1..Len(p) : p[i] = "/"}
  IN  IF slashes # {} THEN SubSeq(p, SetMin(slashes) + 1, Len(p)) ELSE p

\* /^o\d+-\d+-\d+(\/|$)/
isOrphanPath(path) ==
  /\ Len(path) >= 1
  /\ path[1] = "o"
  /\ LET d1 == RunLen(path, 2, IsDigit)
         d2 == RunLen(path, 3 + d1, IsDigit)
         d3 == RunLen(path, 4 + d1 + d2, IsDigit)
         e  == 4 + d1 + d2 + d3
     IN  /\ d1 >= 1
         /\ StartsAt(path, 2 + d1, <<"-">>)
         /\ d2 >= 1
         /\ StartsAt(path, 3 + d1 + d2, <<"-">>)
         /\ d3 >= 1
         /\ (e > Len(path) \/ path[e] = "/")

\* the result of a failed match
NoParse == [type |-> <<>>, rest |-> <<>>]

\* /^(\w+)\s+(.+)$/ on the trimmed line, the keyword lower-cased
parseLine(line) ==
  LET trimmed == trim(line)
      w  == RunLen(trimmed, 1, IsWordChar)
      sp == RunLen(trimmed, w + 1, IsSpace)
  IN  IF trimmed = <<>> \/ w = 0 \/ sp = 0 \/ w + sp >= Len(trimmed)
      THEN NoParse
      ELSE [type |-> toLowerCase(SubSeq(trimmed, 1, w)),
            rest |-> SubSeq(trimmed, w + sp + 1, Len(trimmed))]

TxtDest == <<"d", "e", "s", "t", "=">>

NoDest == [src |-> <<>>, dst |-> <<>>]

\* rest.match(/^(.+?)\s+dest=(.+)$/): the shortest source that is followed by
\* whitespace, "dest=" and at least one character
destMatch(rest) ==
  LET ok(k) == LET j == RunLen(rest, k + 1, IsSpace)
               IN  j >= 1 /\ StartsAt(rest, k + j + 1, TxtDest) /\ k + j + 5 < Len(rest)
      ks == {k \in 1..Len(rest) : ok(k)}
  IN  IF ks = {} THEN NoDest
      ELSE LET k == SetMin(ks)
               j == RunLen(rest, k + 1, IsSpace)
           IN  [src |-> SubSeq(rest, 1, k), dst |-> SubSeq(rest, k + j + 6, Len(rest))]

TxtLen == <<"l", "e", "n", "=">>

\* an absent size (undefined)
NoSize == -1

\* rest.match(/len=(\d+)/) and parseInt(lenMatch[1], 10)
lenMatch(rest) ==
  LET is == {i \in 1..Len(rest) : StartsAt(rest, i, TxtLen) /\ i + 4 <= Len(rest) /\ IsDigit(rest[i + 4])}
  IN  IF is = {} THEN NoSize
      ELSE LET i == SetMin(is)
           IN  parseInt(SubSeq(rest, i + 4, i + 3 + RunLen(rest, i + 4, IsDigit)), 10)

TxtWrite == <<"w", "r", "i", "t", "e">>

TxtRename == <<"r", "e", "n", "a", "m", "e">>

TxtUnlink == <<"u", "n", "l", "i", "n", "k">>

TxtRmdir == <<"r", "m", "d", "i", "r">>

TxtMkdir == <<"m", "k", "d", "i", "r">>

TxtLink == <<"l", "i", "n", "k">>

TxtSymlink == <<"s", "y", "m", "l", "i", "n", "k">>

TxtTruncate == <<"t", "r", "u", "n", "c", "a", "t", "e">>

TxtClone == <<"c", "l", "o", "n", "e">>

VALID_TYPES == {TxtWrite, TxtRename, TxtUnlink, TxtRmdir, TxtMkdir, TxtLink, TxtSymlink, TxtTruncate, TxtClone}

(***************************************************************************)
(* Dump lines: the text the subprocess can write, one line per definition  *)
(***************************************************************************)
LnRenameToOrphan == <<"r", "e", "n", "a", "m", "e", " ", ".", "/", "s", "n", "a", "p", "/", "r", "e", "a", "l", "d", "i", "r", " ", "d", "e", "s", "t", "=", ".", "/", "s", "n", "a", "p", "/", "o", "1", "0", "0", "-", "5", "-", "0">>

LnRmdirOrphan == <<"r", "m", "d", "i", "r", " ", ".", "/", "s", "n", "a", "p", "/", "o", "1", "0", "0", "-", "5", "-", "0">>

LnUnlinkOrphan == <<"u", "n", "l", "i", "n", "k", " ", ".", "/", "s", "n", "a", "p", "/", "o", "1", "0", "0", "-", "5", "-", "0">>

LnRenameFromOrphan == <<"r", "e", "n", "a", "m", "e", " ", ".", "/", "s", "n", "a", "p", "/", "o", "2", "0", "0", "-", "1", "-", "0", " ", "d", "e", "s", "t", "=", ".", "/", "s", "n", "a", "p", "/", "n", "e", "w", "f", "i", "l", "e", ".", "t", "x", "t">>

LnWriteNew == <<"w", "r", "i", "t", "e", " ", ".", "/", "s", "n", "a", "p", "/", "n", "e", "w", "f", "i", "l", "e", ".", "t", "x", "t", " ", "o", "f", "f", "s", "e", "t", "=", "0", " ", "l", "e", "n", "=", "1", "0">>

LnWriteA100 == <<"w", "r", "i", "t", "e", " ", ".", "/", "s", "n", "a", "p", "/", "a", ".", "t", "x", "t", " ", "o", "f", "f", "s", "e", "t", "=", "0", " ", "l", "e", "n", "=", "1", "0", "0">>

LnWriteA50 == <<"w", "r", "i", "t", "e", " ", ".", "/", "s", "n", "a", "p", "/", "a", ".", "t", "x", "t", " ", "o", "f", "f", "s", "e", "t", "=", "1", "0", "0", " ", "l", "e", "n", "=", "5", "0">>

LnRenameOrphanToOrphan == <<"r", "e", "n", "a", "m", "e", " ", ".", "/", "s", "n", "a", "p", "/", "o", "2", "0", "0", "-", "1", "-", "0", " ", "d", "e", "s", "t", "=", ".", "/", "s", "n", "a", "p", "/", "o", "1", "0", "0", "-", "5", "-", "0">>

LnUnlinkReal == <<"u", "n", "l", "i", "n", "k", " ", ".", "/", "s", "n", "a", "p", "/", "r", "e", "a", "l", "d", "i", "r">>

LnMkdirEscapedOrphan == <<"M", "K", "D", "I", "R", " ", " ", ".", "/", "s", "n", "a", "p", "/", "\\", "1", "5", "7", "3", "0", "0", "-", "2", "-", "0">>

LnRenameNormal == <<"r", "e", "n", "a", "m", "e", " ", ".", "/", "s", "n", "a", "p", "/", "a", ".", "t", "x", "t", " ", "d", "e", "s", "t", "=", ".", "/", "s", "n", "a", "p", "/", "b", ".", "t", "x", "t">>

LnMkfile == <<"m", "k", "f", "i", "l", "e", " ", ".", "/", "s", "n", "a", "p", "/", "o", "2", "0", "0", "-", "1", "-", "0">>

LnCreateA == <<"r", "e", "n", "a", "m", "e", " ", ".", "/", "s", "n", "a", "p", "/", "o", "2", "0", "0", "-", "1", "-", "0", " ", "d", "e", "s", "t", "=", ".", "/", "s", "n", "a", "p", "/", "a", ".", "t", "x", "t">>

LnRenameBack == <<"r", "e", "n", "a", "m", "e", " ", ".", "/", "s", "n", "a", "p", "/", "b", ".", "t", "x", "t", " ", "d", "e", "s", "t", "=", ".", "/", "s", "n", "a", "p", "/", "a", ".", "t", "x", "t">>

LnUnlinkA == <<"u", "n", "l", "i", "n", "k", " ", ".", "/", "s", "n", "a", "p", "/", "a", ".", "t", "x", "t">>

LnCloneA == <<"c", "l", "o", "n", "e", " ", ".", "/", "s", "n", "a", "p", "/", "a", ".", "t", "x", "t", " ", "o", "f", "f", "s", "e", "t", "=", "0", " ", "l", "e", "n", "=", "1", "0", "0", " ", "f", "r", "o", "m", "=", ".", "/", "s", "n", "a", "p", "/", "b", ".", "t", "x", "t", " ", "c", "l", "o", "n", "e", "_", "o", "f", "f", "s", "e", "t", "=", "0">>

LnWriteB == <<"w", "r", "i", "t", "e", " ", ".", "/", "s", "n", "a", "p", "/", "b", ".", "t", "x", "t", " ", "o", "f", "f", "s", "e", "t", "=", "0", " ", "l", "e", "n", "=", "1", "0">>

LnRenameAToOrphan == <<"r", "e", "n", "a", "m", "e", " ", ".", "/", "s", "n", "a", "p", "/", "a", ".", "t", "x", "t", " ", "d", "e", "s", "t", "=", ".", "/", "s", "n", "a", "p", "/", "o", "1", "0", "0", "-", "5", "-", "0">>

LnRenameAToC == <<"r", "e", "n", "a", "m", "e", " ", ".", "/", "s", "n", "a", "p", "/", "a", ".", "t", "x", "t", " ", "d", "e", "s", "t", "=", ".", "/", "s", "n", "a", "p", "/", "c", ".", "t", "x", "t">>

LnRmdirOrphanSub == <<"r", "m", "d", "i", "r", " ", ".", "/", "s", "n", "a", "p", "/", "o", "1", "0", "0", "-", "5", "-", "0", "/", "s", "u", "b">>

LnUnlinkOrphanSub == <<"u", "n", "l", "i", "n", "k", " ", ".", "/", "s", "n", "a", "p", "/", "o", "1", "0", "0", "-", "5", "-", "0", "/", "s", "u", "b", "/", "f">>

\* the lines of Spec
Lines == {LnRenameToOrphan,
          LnRmdirOrphan,
          LnUnlinkOrphan,
          LnRenameFromOrphan,
          LnWriteNew,
          LnWriteA100,
          LnWriteA50,
          LnRenameOrphanToOrphan,
          LnUnlinkReal,
          LnMkdirEscapedOrphan,
          LnRenameNormal,
          LnMkfile}

\* the lines of SpecRun
RunLines == {LnWriteA100, LnRenameToOrphan, LnRmdirOrphan, LnRmdirOrphanSub, LnUnlinkOrphanSub,
             LnRenameOrphanToOrphan, LnRenameAToOrphan}

\* the lines of SpecCache
CacheLines == {LnWriteA100}

\* the lines of the dumps that the file-history index is built from
IndexLines == {LnCreateA, LnWriteA100, LnRenameNormal, LnRenameBack, LnUnlinkA}

\* the lines of SpecResume
ResumeLines == {LnWriteA100, LnUnlinkA}

\* the lines of SpecConcurrent
LookupLines == {LnWriteA100, LnRenameNormal, LnRenameAToC}

ConcLines == {LnWriteA100, LnRenameToOrphan}

\* the lines of SpecRebuild
RebuildLines == {LnWriteA100, LnRenameNormal, LnUnlinkA}

\* the lines of SpecFault
FaultLines == {LnCloneA, LnWriteA100, LnWriteB, LnRenameNormal}

AllLines ==
  Lines \cup RunLines \cup CacheLines \cup IndexLines \cup ResumeLines \cup FaultLines
    \cup RebuildLines \cup ConcLines \cup LookupLines

(***************************************************************************)
(* What the loop body computes from the text of a line alone, computed     *)
(* once per line of the alphabet                                           *)
(***************************************************************************)
LineInfo(line) ==
  LET parsed == parseLine(line)
      dm == destMatch(parsed.rest)
      rawPath == extractPath(parsed.rest)
  IN  [parsed |-> parsed,
       dm |-> dm,
       strippedSource |-> stripSnapshotPrefix(extractPath(dm.src)),
       strippedDest |-> stripSnapshotPrefix(extractPath(dm.dst)),
       rawPath |-> rawPath,
       strippedPath |-> stripSnapshotPrefix(rawPath),
       len |-> lenMatch(parsed.rest)]

LineTable == [l \in AllLines |-> LineInfo(l)]

(***************************************************************************)
(* FileChange objects live in a heap: a reference is <<run, index>>, so    *)
(* that the change map, the events, the cache and a consumer's map can     *)
(* hold the same object, as they do in the source.                         *)
(***************************************************************************)
NoRef == <<0, 0>>

\* an absent oldPath (undefined)
NoOldPath == <<"undefined">>

FileChange(type, path, oldPath, size) ==
  [type |-> type, path |-> path, oldPath |-> oldPath, size |-> size]

Deref(h, ref) == h[ref[1]][ref[2]]

Alloc(h, r, obj) == [h EXCEPT ![r] = Append(@, obj)]

NewRef(h, r) == <<r, Len(h[r]) + 1>>

\* JavaScript truthiness of an optional number
Truthy(size) == size # NoSize /\ size # 0

\* (size || 0)
OrZero(size) == IF Truthy(size) THEN size ELSE 0

\* a JavaScript Map in insertion order: a sequence of [key, val]
MapHas(m, k) == \E i \in 1..Len(m) : m[i].key = k

MapGet(m, k) == m[CHOOSE i \in 1..Len(m) : m[i].key = k].val

MapSet(m, k, v) ==
  IF MapHas(m, k) THEN [i \in 1..Len(m) |-> IF m[i].key = k THEN [key |-> k, val |-> v] ELSE m[i]]
  ELSE Append(m, [key |-> k, val |-> v])

\* a delete that leaves the map as it is
MapDeleteNothing(m, k) == m

MapDelete(m, k) == SelectSeq(m, LAMBDA e : e.key # k)

MapValues(m) == [i \in 1..Len(m) |-> m[i].val]

(***************************************************************************)
(* ChangeAggregator                                                        *)
(***************************************************************************)
\* `${change.type}:${change.path}`
ChangeKey(c) == c.type \o <<":">> \o c.path

\* emitChange without the orphan check of its first statement
emitChangeUnfiltered(cm, h, ref) ==
  LET change == Deref(h, ref)
      key == ChangeKey(change)
  IN  IF MapHas(cm, key)
      THEN LET existing == MapGet(cm, key)
           IN  [cm |-> cm,
                h  |-> IF Truthy(change.size)
                       THEN [h EXCEPT ![existing[1]][existing[2]].size =
                                        OrZero(Deref(h, existing).size) + change.size]
                       ELSE h,
                ok |-> TRUE]
      ELSE [cm |-> MapSet(cm, key, ref), h |-> h, ok |-> TRUE]

\* emitChange that inserts every change it is given, without the lookup
emitChangeAlwaysInsert(cm, h, ref) ==
  LET change == Deref(h, ref)
      key == ChangeKey(change)
  IN  IF isOrphanPath(change.path) THEN [cm |-> cm, h |-> h, ok |-> FALSE]
      ELSE [cm |-> Append(cm, [key |-> key, val |-> ref]), h |-> h, ok |-> TRUE]

\* emitChange: the change map and the heap after the call, and its result
emitChange(cm, h, ref) ==
  LET change == Deref(h, ref)
      key == ChangeKey(change)
  IN  IF isOrphanPath(change.path) THEN [cm |-> cm, h |-> h, ok |-> FALSE]
      ELSE IF MapHas(cm, key)
      THEN LET existing == MapGet(cm, key)
           IN  [cm |-> cm,
                h  |-> IF Truthy(change.size)
                       THEN [h EXCEPT ![existing[1]][existing[2]].size =
                                        OrZero(Deref(h, existing).size) + change.size]
                       ELSE h,
                ok |-> TRUE]
      ELSE [cm |-> MapSet(cm, key, ref), h |-> h, ok |-> TRUE]

(***************************************************************************)
(* OrphanResolver and the per-line body of the stream driver               *)
(***************************************************************************)
\* a write that is never skipped for a newly created file
isWriteToNewFileNever(newlyCreatedFiles, type, strippedPath) == FALSE

\* type === "write" && newlyCreatedFiles.has(strippedPath)
isWriteToNewFile(newlyCreatedFiles, type, strippedPath) ==
  type = TxtWrite /\ strippedPath \in newlyCreatedFiles

\* if (emitChange(change)) { yield change }: the run with the change map that
\* emitChange (result e) leaves, and the change to yield
Emitted(base, ref, e) ==
  [rs |-> [base EXCEPT !.changeMap = e.cm], h |-> e.h, ev |-> IF e.ok THEN ref ELSE NoRef]

\* the body of the for-await loop after parseLine, for a line whose parts are
\* info: the run and the heap after the line, and the change it yields (NoRef
\* when it yields nothing). Where the source yields before
\* pendingOrphanDeletes.delete, the removal is folded into the same step:
\* nothing else can read the map in between.
ProcessInfo(rs, h, r, info) ==
  LET parsed == info.parsed
      type == info.parsed.type
      Skip == [rs |-> rs, h |-> h, ev |-> NoRef]
      Emit(base, hh, ref) == Emitted(base, ref, emitChange(base.changeMap, hh, ref))
      EmitNew(base, obj) == Emit(base, Alloc(h, r, obj), NewRef(h, r))
      Removal(kind) ==
        LET rawPath == info.rawPath
            strippedPath == info.strippedPath
        IN  IF isOrphanPath(rawPath) \/ isOrphanPath(strippedPath)
            THEN IF MapHas(rs.pendingOrphanDeletes, strippedPath)
                 THEN LET pending == MapGet(rs.pendingOrphanDeletes, strippedPath)
                          h1 == IF kind = TxtRmdir
                                THEN [h EXCEPT ![pending[1]][pending[2]].type = TxtRmdir]
                                ELSE h
                      IN  Emit([rs EXCEPT !.pendingOrphanDeletes = MapDelete(@, strippedPath)],
                               h1, pending)
                 ELSE Skip
            ELSE EmitNew(rs, FileChange(kind, strippedPath, NoOldPath, NoSize))
  IN  IF parsed = NoParse THEN Skip
      ELSE IF type = TxtRename THEN
        LET dm == info.dm
            strippedSource == info.strippedSource
            strippedDest == info.strippedDest
        IN  IF dm = NoDest THEN Skip
            ELSE IF isOrphanPath(strippedDest)
            THEN [rs |-> [rs EXCEPT
                           !.orphanToSource = MapSet(@, strippedDest, strippedSource),
                           !.pendingOrphanDeletes = MapSet(@, strippedDest, NewRef(h, r))],
                  h  |-> Alloc(h, r, FileChange(TxtUnlink, strippedSource, NoOldPath, NoSize)),
                  ev |-> NoRef]
            ELSE IF isOrphanPath(strippedSource)
            THEN EmitNew([rs EXCEPT !.newlyCreatedFiles = @ \cup {strippedDest}],
                         FileChange(TxtLink, strippedDest, NoOldPath, NoSize))
            ELSE EmitNew(rs, FileChange(TxtRename, strippedDest, strippedSource, NoSize))
      ELSE IF type = TxtRmdir THEN Removal(TxtRmdir)
      ELSE IF type = TxtUnlink THEN Removal(TxtUnlink)
      ELSE IF type \notin VALID_TYPES THEN Skip
      ELSE
        LET rawPath == info.rawPath
            strippedPath == info.strippedPath
        IN  IF isOrphanPath(rawPath) \/ isOrphanPath(strippedPath) THEN Skip
            ELSE IF isWriteToNewFile(rs.newlyCreatedFiles, type, strippedPath) THEN Skip
            ELSE EmitNew(rs, FileChange(type, strippedPath, NoOldPath,
                                        IF type = TxtWrite THEN info.len ELSE NoSize))

\* the body of the for-await loop from parseLine on
ProcessLine(rs, h, r, line) == ProcessInfo(rs, h, r, LineTable[line])

(***************************************************************************)
(* State                                                                   *)
(***************************************************************************)
VARIABLES
  runs,         \* one streamChanges generator (with its consumer) per run id
  heap,         \* heap[r]: the FileChange objects created by run r
  streamCache,  \* the module-level Map: cache key -> CachedResult
  now,          \* Date.now()
  lastClosed,   \* the comparison that finished last (0: none, or cache cleared since)
  budget,       \* what is left of the exploration bounds
  catalog,      \* getSnapshots(): the snapshots of the subvolume, oldest first
  dump,         \* the lines that btrfs send | receive --dump writes for a pair of snapshots
  database,     \* the file-history database (getDB())
  build         \* the invocation of buildFileIndex in progress, or the last one

\* the variables of the TimelineIndexer
ixvars == <<catalog, dump, database, build>>

vars == <<runs, heap, streamCache, now, lastClosed, budget, catalog, dump, database, build>>

\* exploration bounds
MaxLines == 3

MaxRunLines == 2

MaxCacheLines == 2

MaxRuns == 2

MaxTicks == 2

MaxBursts == 1

\* lines in the dump of the first pair of a chain (SpecIndex)
MaxIndexLines == 2

\* lines in the dump of a later pair of a chain (SpecIndex)
MaxLaterLines == 1

\* lines in the dump of a pair (SpecResume)
MaxResumeLines == 2

\* invocations of buildFileIndex (SpecResume)
MaxBuilds == 2

\* snapshots deleted from the catalog (SpecResume)
MaxDeletes == 1

\* comparisons requested by a viewer before the index is built (SpecIndex)
MaxViews == 1

\* lines of the dump of the pair in SpecLookup
MaxLookupLines == 4

\* lines of the dump of a pair in SpecConcurrent and in SpecTwoBuilds
MaxConcLines == 2

\* lines of the dump of the first pair in SpecFault
MaxFaultLines == 2

RunIds == 1..MaxRuns

CACHE_TTL == 1000 * 60 * 60

\* the number of lines between two progress events
ProgressEvery == 100

\* lines read in one step by ReadIgnored
Burst == ProgressEvery - 1

Snap1 == <<"/", "s", "/", "1">>

Snap2 == <<"/", "s", "/", "2">>

Snap3 == <<"/", "s", "/", "3">>

Pairs == {<<Snap1, Snap2>>, <<Snap2, Snap3>>}

\* the snapshots in the order of their creation
Snaps == <<Snap1, Snap2, Snap3>>

\* the pairs a chain walk can compare, whatever snapshots were deleted
ChainPairs ==
  {<<Snaps[ij[1]], Snaps[ij[2]]>> :
     ij \in {ij \in (1..Len(Snaps)) \X (1..Len(Snaps)) : ij[1] < ij[2]}}

NoPair == <<<<>>, <<>>>>

getCacheKey(oldPath, newPath) == oldPath \o <<":">> \o newPath

CacheKeys == {getCacheKey(p[1], p[2]) : p \in ChainPairs}

Consumers == {"forAwait", "getChangesFromStream"}

ZeroSummary == [added |-> 0, modified |-> 0, deleted |-> 0, renamed |-> 0]

\* streamCache.get(key) === undefined
NoEntry == [present |-> FALSE, changes |-> <<>>, summary |-> ZeroSummary, timestamp |-> 0]

NoChange == FileChange(<<>>, <<>>, NoOldPath, NoSize)

IdleRun ==
  [pc |-> "idle", pair |-> NoPair, consumer |-> "none", noCache |-> FALSE, proc |-> "none", hit |-> FALSE,
   lineCount |-> 0, orphanToSource |-> <<>>, pendingOrphanDeletes |-> <<>>,
   newlyCreatedFiles |-> {}, changeMap |-> <<>>, line |-> <<>>, idx |-> 0,
   cached |-> NoEntry, events |-> <<>>, abandoned |-> FALSE, readFailed |-> FALSE,
   cmap |-> <<>>, csummary |-> ZeroSummary,
   startedAt |-> 0, stamp |-> 0, follows |-> 0, input |-> <<>>]

YieldPcs == {"yProgress", "yChange", "yFlush", "yDone", "yError", "yReplay", "yDoneCached"}

InFlight(rs) == rs.pc \notin {"idle", "closed"}

(***************************************************************************)
(* Events and their consumers                                              *)
(***************************************************************************)
ChangeEv(h, ref) == [type |-> "change", ref |-> ref, data |-> Deref(h, ref), summary |-> ZeroSummary]

ProgressEv == [type |-> "progress", ref |-> NoRef, data |-> NoChange, summary |-> ZeroSummary]

DoneEv(summary) == [type |-> "done", ref |-> NoRef, data |-> NoChange, summary |-> summary]

ErrorEv == [type |-> "error", ref |-> NoRef, data |-> NoChange, summary |-> ZeroSummary]

\* the loop body of getChangesFromStream; the for-await loops of buildFileIndex
\* and of the stream-changes route only read the event
Consume(rs, h, ev) ==
  LET logged == [rs EXCEPT !.events = Append(@, ev)]
      key == ChangeKey(ev.data)
  IN  IF rs.consumer = "getChangesFromStream" /\ ev.type = "change"
      THEN IF MapHas(rs.cmap, key) /\ Truthy(Deref(h, ev.ref).size)
           THEN LET existing == MapGet(rs.cmap, key)
                IN  [rs |-> logged,
                     h  |-> [h EXCEPT ![existing[1]][existing[2]].size =
                                        OrZero(Deref(h, existing).size) + Deref(h, ev.ref).size]]
           ELSE IF ~MapHas(rs.cmap, key)
           THEN [rs |-> [logged EXCEPT !.cmap = MapSet(@, key, ev.ref)], h |-> h]
           ELSE [rs |-> logged, h |-> h]
      ELSE IF rs.consumer = "getChangesFromStream" /\ ev.type = "done"
      THEN [rs |-> [logged EXCEPT !.csummary = ev.summary], h |-> h]
      ELSE [rs |-> logged, h |-> h]

\* the generator suspends at a yield and its consumer handles the event
Yield(rs, h, sc, pc, ev) ==
  LET c == Consume([rs EXCEPT !.pc = pc], h, ev)
  IN  [rs |-> c.rs, h |-> c.h, sc |-> sc]

(***************************************************************************)
(* StreamDriver                                                            *)
(***************************************************************************)
\* after the loop body (result p): the yield of its change, or the next read
AfterLine(p, sc) ==
  IF p.ev # NoRef
  THEN Yield(p.rs, p.h, sc, "yChange", ChangeEv(p.h, p.ev))
  ELSE [rs |-> [p.rs EXCEPT !.pc = "await"], h |-> p.h, sc |-> sc]

\* the rest of the loop body once the progress check is passed
LineBody(rs, h, sc, r, line) == AfterLine(ProcessLine(rs, h, r, line), sc)

CountOf(cm, h, types) == Cardinality({i \in 1..Len(cm) : Deref(h, cm[i].val).type \in types})

Summary(cm, h) ==
  [added    |-> CountOf(cm, h, {TxtMkdir, TxtLink, TxtSymlink}),
   modified |-> CountOf(cm, h, {TxtWrite, TxtTruncate}),
   deleted  |-> CountOf(cm, h, {TxtUnlink, TxtRmdir}),
   renamed  |-> CountOf(cm, h, {TxtRename})]

\* a setCachedResult that stores the summary and the timestamp but no change
setCachedResultNoChanges(sc, oldPath, newPath, changes, summary, t) ==
  [sc EXCEPT ![getCacheKey(oldPath, newPath)] =
     [present |-> TRUE, changes |-> <<>>, summary |-> summary, timestamp |-> t]]

setCachedResult(sc, oldPath, newPath, changes, summary, t) ==
  [sc EXCEPT ![getCacheKey(oldPath, newPath)] =
     [present |-> TRUE, changes |-> changes, summary |-> summary, timestamp |-> t]]

\* a completion that caches the result and returns without the done event
CompleteWithoutDone(rs, h, sc, t) ==
  [rs |-> [rs EXCEPT !.stamp = t, !.proc = "killed", !.pc = "closed"],
   h  |-> h,
   sc |-> setCachedResult(sc, rs.pair[1], rs.pair[2], MapValues(rs.changeMap),
                          Summary(rs.changeMap, h), t)]

\* after the flush loop: summary, setCachedResult, yield done
Complete(rs, h, sc, t) ==
  LET summary == Summary(rs.changeMap, h)
  IN  Yield([rs EXCEPT !.stamp = t], h,
            setCachedResult(sc, rs.pair[1], rs.pair[2], MapValues(rs.changeMap), summary, t),
            "yDone", DoneEv(summary))

\* no flush loop: the summary follows the line loop at once
FlushNothing(rs, h, sc, t, i) == Complete(rs, h, sc, t)

\* the loop over pendingOrphanDeletes from its i-th entry to the next yield
RECURSIVE FlushFrom(_, _, _, _, _)
FlushFrom(rs, h, sc, t, i) ==
  IF i > Len(rs.pendingOrphanDeletes) THEN Complete(rs, h, sc, t)
  ELSE LET pending == rs.pendingOrphanDeletes[i].val
           e == emitChange(rs.changeMap, h, pending)
       IN  IF e.ok
           THEN Yield([rs EXCEPT !.changeMap = e.cm, !.idx = i], e.h, sc, "yFlush",
                      ChangeEv(e.h, pending))
           ELSE FlushFrom(rs, h, sc, t, i + 1)

\* the loop over cached.changes from its i-th entry to the next yield
RECURSIVE ReplayFrom(_, _, _, _)
ReplayFrom(rs, h, sc, i) ==
  IF i > Len(rs.cached.changes)
  THEN Yield(rs, h, sc, "yDoneCached", DoneEv(rs.cached.summary))
  ELSE IF ~isOrphanPath(Deref(h, rs.cached.changes[i]).path)
  THEN Yield([rs EXCEPT !.idx = i], h, sc, "yReplay", ChangeEv(h, rs.cached.changes[i]))
  ELSE ReplayFrom(rs, h, sc, i + 1)

\* a lookup that still hits at the age of exactly CACHE_TTL
CacheHitAtTTL(sc, key, t) == sc[key].present /\ t - sc[key].timestamp <= CACHE_TTL

\* getCachedResult: a hit exactly when an entry is present and younger than the TTL
CacheHit(sc, key, t) == sc[key].present /\ t - sc[key].timestamp < CACHE_TTL

\* getCachedResult: an expired entry is deleted
CacheAfterGet(sc, key, t) ==
  IF sc[key].present /\ ~CacheHit(sc, key, t) THEN [sc EXCEPT ![key] = NoEntry] ELSE sc

clearCache(sc, oldPath, newPath) == [sc EXCEPT ![getCacheKey(oldPath, newPath)] = NoEntry]

\* proc.kill()
Kill(proc) == IF proc = "running" THEN "killed" ELSE proc

\* a finally block that does not kill the subprocess
FinallyWithoutKill(rs) == [rs EXCEPT !.pc = "closed"]

\* the finally block, then the generator is finished
Finally(rs) == [rs EXCEPT !.proc = Kill(@), !.pc = "closed"]

(***************************************************************************)
(* TimelineIndexer (app/services/file-history.server.ts): the durable      *)
(* store of one subvolume, as the rows of its four tables in rowid order   *)
(***************************************************************************)
\* a snapshot of the catalog: its path and its creation time
Snapshot(path, createdAt) == [path |-> path, createdAt |-> createdAt]

\* getIndexMetadata(...) === undefined
\* the snapshot root (subvolumePath) that the requests of the model name, and
\* another root indexed in the same database
Subvol == <<"/", "m", "n", "t">>

OtherSubvol == <<"/", "o", "t", "h", "e", "r">>

Roots == {Subvol, OtherSubvol}

NoMeta ==
  [present |-> FALSE, last_indexed_snapshot |-> <<>>, indexed_snapshots |-> 0,
   total_snapshots |-> 0, status |-> "none"]

\* the store after initSchema, or after resetDB
EmptyDB == [file_timelines |-> <<>>, file_aliases |-> <<>>, file_history_entries |-> <<>>,
            index_metadata |-> [s \in Roots |-> NoMeta], timeline_seq |-> 0]

\* SQL NULL in a text column
Null == <<"null">>

\* SELECT * FROM index_metadata WHERE subvolume_path = ?: NoMeta for no row
getIndexMetadata(db, subvolumePath) == db.index_metadata[subvolumePath]

\* INSERT ... ON CONFLICT(subvolume_path) DO UPDATE: the one row of the subvolume
updateIndexMetadata(db, lastIndexedSnapshot, indexed, total, status) ==
  [db EXCEPT !.index_metadata[Subvol] =
     [present |-> TRUE, last_indexed_snapshot |-> lastIndexedSnapshot,
      indexed_snapshots |-> indexed, total_snapshots |-> total, status |-> status]]

\* SELECT id FROM file_timelines WHERE subvolume_path = ?
TimelineIds(db, subvolumePath) ==
  {db.file_timelines[i].id :
     i \in {i \in 1..Len(db.file_timelines) :
              db.file_timelines[i].subvolume_path = subvolumePath}}

\* the rows of file_timelines of the root whose current_path is path
RowsAt(db, path) ==
  {i \in 1..Len(db.file_timelines) :
     db.file_timelines[i].subvolume_path = Subvol /\ db.file_timelines[i].current_path = path}

\* an upsert that keeps the status of the row it finds
createOrUpdateKeepStatus(db, filePath, status, firstSeen, lastSeen) ==
  IF RowsAt(db, filePath) # {}
  THEN LET i == CHOOSE i \in RowsAt(db, filePath) : TRUE
       IN  [db |-> [db EXCEPT !.file_timelines[i].last_seen = lastSeen],
            id |-> db.file_timelines[i].id]
  ELSE LET id == db.timeline_seq + 1
       IN  [db |-> [db EXCEPT !.timeline_seq = id,
                              !.file_timelines =
                      Append(@, [id |-> id, subvolume_path |-> Subvol, current_path |-> filePath,
                                 status |-> status,
                                 first_seen |-> firstSeen, last_seen |-> lastSeen])],
            id |-> id]

\* INSERT ... ON CONFLICT(subvolume_path, current_path) DO UPDATE SET status,
\* last_seen ... RETURNING id: the store after the statement and the id. Rows
\* are numbered by AUTOINCREMENT (timeline_seq is the last number given).
createOrUpdateFileTimeline(db, filePath, status, firstSeen, lastSeen) ==
  IF RowsAt(db, filePath) # {}
  THEN LET i == CHOOSE i \in RowsAt(db, filePath) : TRUE
       IN  [db |-> [db EXCEPT !.file_timelines[i].status = status,
                              !.file_timelines[i].last_seen = lastSeen],
            id |-> db.file_timelines[i].id]
  ELSE LET id == db.timeline_seq + 1
       IN  [db |-> [db EXCEPT !.timeline_seq = id,
                              !.file_timelines =
                      Append(@, [id |-> id, subvolume_path |-> Subvol, current_path |-> filePath,
                                 status |-> status,
                                 first_seen |-> firstSeen, last_seen |-> lastSeen])],
            id |-> id]

\* an addFileAlias that inserts nothing
addFileAliasNothing(db, timelineId, path) == db

\* INSERT OR IGNORE INTO file_aliases
addFileAlias(db, timelineId, path) ==
  IF \E k \in 1..Len(db.file_aliases) :
       db.file_aliases[k].timeline_id = timelineId /\ db.file_aliases[k].path = path
  THEN db
  ELSE [db EXCEPT !.file_aliases = Append(@, [timeline_id |-> timelineId, path |-> path])]

\* previousPath || null
OrNull(path) == IF path = NoOldPath \/ path = <<>> THEN Null ELSE path

\* size || null
SizeOrNull(size) == IF Truthy(size) THEN size ELSE NoSize

\* INSERT INTO file_history_entries
addHistoryEntry(db, timelineId, snapshot, path, changeType, previousPath, size, isDirectory) ==
  [db EXCEPT !.file_history_entries =
     Append(@, [timeline_id |-> timelineId, snapshot_path |-> snapshot.path,
                snapshot_created_at |-> snapshot.createdAt, path |-> path,
                change_type |-> changeType, previous_path |-> OrNull(previousPath),
                size |-> SizeOrNull(size), is_directory |-> isDirectory])]

\* the switch of processFileChange
historyChangeType(type) ==
  CASE type \in {TxtMkdir, TxtLink, TxtSymlink} -> "created"
    [] type \in {TxtWrite, TxtTruncate, TxtClone} -> "modified"
    [] type \in {TxtUnlink, TxtRmdir} -> "deleted"
    [] type = TxtRename -> "renamed"
    [] OTHER -> "skip"

\* the ids of the timelines that "ft.current_path = ? OR fa.path = ?" selects
TimelinesOf(db, path) ==
  {db.file_timelines[i].id : i \in RowsAt(db, path)}
    \cup {db.file_aliases[k].timeline_id :
            k \in {k \in 1..Len(db.file_aliases) :
                     /\ db.file_aliases[k].path = path
                     /\ db.file_aliases[k].timeline_id \in TimelineIds(db, Subvol)}}

\* what the SELECT ... LIMIT 1 of processFileChange can return for a change: 0
\* for no row (or no lookup). The statement has no ORDER BY, so any of the
\* matching timelines can be the one.
Lookups(db, change) ==
  IF historyChangeType(change.type) = "renamed" /\ OrNull(change.oldPath) # Null
       /\ TimelinesOf(db, change.oldPath) # {}
  THEN TimelinesOf(db, change.oldPath)
  ELSE {0}

\* UPDATE file_timelines SET current_path = ? WHERE id = ? fails on
\* UNIQUE(subvolume_path, current_path)
UniqueViolated(db, id, path) ==
  \E i \in RowsAt(db, path) : db.file_timelines[i].id # id

\* processFileChange, given the row found (0 for none): the store after the call
\* and whether it returned (ok) or threw the constraint error
processFileChange(db, change, snapshot, found) ==
  LET kind == historyChangeType(change.type)
      targetPath == change.path
      previousPath == IF kind = "renamed" THEN change.oldPath ELSE NoOldPath
      isDirectory == change.type \in {TxtMkdir, TxtRmdir}
      status == IF kind = "deleted" THEN "deleted" ELSE "active"
  IN  IF kind = "skip" THEN [db |-> db, ok |-> TRUE]
      ELSE IF found # 0
      THEN IF UniqueViolated(db, found, targetPath) THEN [db |-> db, ok |-> FALSE]
           ELSE LET i == CHOOSE i \in 1..Len(db.file_timelines) : db.file_timelines[i].id = found
                    moved == [db EXCEPT !.file_timelines[i].current_path = targetPath,
                                        !.file_timelines[i].last_seen = snapshot.createdAt]
                IN  [db |-> addHistoryEntry(addFileAlias(moved, found, previousPath), found,
                                            snapshot, targetPath, kind, previousPath,
                                            change.size, isDirectory),
                     ok |-> TRUE]
      ELSE LET t == createOrUpdateFileTimeline(db, targetPath, status, snapshot.createdAt,
                                               snapshot.createdAt)
           IN  [db |-> addHistoryEntry(t.db, t.id, snapshot, targetPath, kind, previousPath,
                                       change.size, isDirectory),
                ok |-> TRUE]

\* a clearing that empties the four tables
rebuildClearAll(db, subvolumePath) ==
  [db EXCEPT !.file_history_entries = <<>>, !.file_aliases = <<>>, !.file_timelines = <<>>,
             !.index_metadata = [s \in Roots |-> NoMeta]]

\* the four DELETE statements of rebuildIndex; sqlite_sequence keeps the last
\* AUTOINCREMENT number
rebuildClear(db, subvolumePath) ==
  LET ids == TimelineIds(db, subvolumePath)
  IN  [db EXCEPT !.file_history_entries = SelectSeq(@, LAMBDA e : e.timeline_id \notin ids),
                 !.file_aliases = SelectSeq(@, LAMBDA a : a.timeline_id \notin ids),
                 !.file_timelines = SelectSeq(@, LAMBDA row : row.subvolume_path # subvolumePath),
                 !.index_metadata[subvolumePath] = NoMeta]

\* the paths of the files of the other root
PathA == <<"a", ".", "t", "x", "t">>

PathB == <<"b", ".", "t", "x", "t">>

\* the newer of the two snapshots of the other root
OtherSnap2 == [path |-> <<"/", "o", "/", "2">>, createdAt |-> 2]

\* the database after buildFileIndex has indexed the other root, in whose
\* second snapshot a.txt was written and then renamed to b.txt: the rows that
\* the statements of processFileChange and updateIndexMetadata leave, under
\* the other root's subvolume_path
OtherIndexed ==
  LET written == processFileChange(EmptyDB, FileChange(TxtWrite, PathA, NoOldPath, 100),
                                   OtherSnap2, 0).db
      renamed == processFileChange(written, FileChange(TxtRename, PathB, PathA, NoSize),
                                   OtherSnap2, 1).db
      marked == updateIndexMetadata(renamed, OtherSnap2.path, 2, 2, "complete")
  IN  [marked EXCEPT
         !.file_timelines = [k \in 1..Len(@) |-> [@[k] EXCEPT !.subvolume_path = OtherSubvol]],
         !.index_metadata = [s \in Roots |-> IF s = OtherSubvol THEN marked.index_metadata[Subvol]
                                             ELSE NoMeta]]

\* ORDER BY snapshot_created_at ASC over the entries of one timeline
RECURSIVE SortedByCreatedAt(_)
SortedByCreatedAt(rows) ==
  IF rows = <<>> THEN <<>>
  ELSE LET first == SetMin({rows[k].snapshot_created_at : k \in 1..Len(rows)})
           k == SetMin({k \in 1..Len(rows) : rows[k].snapshot_created_at = first})
       IN  <<rows[k]>> \o SortedByCreatedAt(SubSeq(rows, 1, k - 1) \o SubSeq(rows, k + 1, Len(rows)))

\* the FileTimeline that getFileHistory returns when its first SELECT yields
\* the timeline id
TimelineView(db, id) ==
  LET i == CHOOSE i \in 1..Len(db.file_timelines) : db.file_timelines[i].id = id
      timeline == db.file_timelines[i]
      aliases == SelectSeq(db.file_aliases, LAMBDA a : a.timeline_id = id)
      entries == SelectSeq(db.file_history_entries, LAMBDA e : e.timeline_id = id)
  IN  [currentPath |-> timeline.current_path,
       aliases |-> <<timeline.current_path>> \o [k \in 1..Len(aliases) |-> aliases[k].path],
       history |-> SortedByCreatedAt(entries),
       firstSeen |-> timeline.first_seen,
       lastSeen |-> timeline.last_seen,
       status |-> timeline.status]

\* getFileHistory(subvolumePath, filePath): the timelines it can return (its
\* SELECT DISTINCT ... LIMIT 1 has no ORDER BY); the empty set stands for null
getFileHistory(db, filePath) == {TimelineView(db, id) : id \in TimelinesOf(db, filePath)}

(***************************************************************************)
(* Actions                                                                 *)
(***************************************************************************)
\* no comparison is running
Quiet == \A q \in RunIds : ~InFlight(runs[q])

\* the result of one advance of generator r becomes the next state
Advance(r, res) ==
  /\ runs' = [runs EXCEPT ![r] = res.rs]
  /\ heap' = res.h
  /\ streamCache' = res.sc
  /\ lastClosed' = IF res.rs.pc = "closed" THEN r ELSE lastClosed

\* Date.now() at a point where the program reads the clock: d is the time that
\* has passed since the clock was last read
Elapsed == {0, CACHE_TTL - 1, CACHE_TTL}

ClockRead(d) ==
  /\ d \in Elapsed
  /\ d > 0 => budget.ticks > 0
  /\ now' = now + d

TicksAfter(d) == IF d > 0 THEN budget.ticks - 1 ELSE budget.ticks

\* the first next() of streamChanges(oldSnapshotPath, newSnapshotPath): the cache
\* lookup, then either the replay up to its first yield or the spawn. With
\* noCache it is the loader of the stream-changes route, which calls clearCache
\* first.
Start(r, pair, consumer, noCache, d) ==
  /\ runs[r].pc = "idle"
  /\ \A q \in 1..(r - 1) : runs[q].pc # "idle"
  /\ noCache => consumer = "forAwait"
  /\ ClockRead(d)
  /\ LET key == getCacheKey(pair[1], pair[2])
         sc0 == IF noCache THEN clearCache(streamCache, pair[1], pair[2]) ELSE streamCache
         hit == CacheHit(sc0, key, now')
         sc == CacheAfterGet(sc0, key, now')
         base == [IdleRun EXCEPT !.pair = pair, !.consumer = consumer, !.hit = hit,
                                 !.noCache = noCache, !.startedAt = now',
                                 !.follows = IF Quiet THEN lastClosed ELSE 0]
     IN  IF hit
         THEN Advance(r, ReplayFrom([base EXCEPT !.cached = sc0[key],
                                                 !.stamp = sc0[key].timestamp],
                                    heap, sc, 1))
         ELSE Advance(r, [rs |-> [base EXCEPT !.proc = "running", !.pc = "await"],
                          h |-> heap, sc |-> sc])
  /\ budget' = [budget EXCEPT !.ticks = TicksAfter(d)]

\* the readline interface delivers the next line of the subprocess
ReadLine(r, line) ==
  /\ runs[r].pc = "await"
  /\ runs[r].proc = "running"
  /\ budget.lines > 0
  /\ LET rs == [runs[r] EXCEPT !.lineCount = @ + 1, !.input = Append(@, line)]
     IN  IF rs.lineCount % ProgressEvery = 0
         THEN Advance(r, Yield([rs EXCEPT !.line = line], heap, streamCache, "yProgress", ProgressEv))
         ELSE Advance(r, LineBody(rs, heap, streamCache, r, line))
  /\ budget' = [budget EXCEPT !.lines = @ - 1]
  /\ UNCHANGED now

\* Burst consecutive lines that the loop skips (blank, or a keyword outside
\* VALID_TYPES), none of them the ProgressEvery-th: only lineCount changes
ReadIgnored(r) ==
  /\ runs[r].pc = "await"
  /\ runs[r].proc = "running"
  /\ budget.bursts > 0
  /\ (runs[r].lineCount % ProgressEvery) + Burst < ProgressEvery
  /\ runs' = [runs EXCEPT ![r].lineCount = @ + Burst]
  /\ budget' = [budget EXCEPT !.bursts = @ - 1]
  /\ UNCHANGED <<heap, streamCache, now, lastClosed>>

\* an advance that runs the flush loop: the clock is read only if the loop
\* finishes and setCachedResult is reached
Flush(r, rs, from, d) ==
  LET res == FlushFrom(rs, heap, streamCache, now + d, from)
  IN  /\ ClockRead(d)
      /\ d > 0 => res.rs.pc = "yDone"
      /\ Advance(r, res)
      /\ budget' = [budget EXCEPT !.ticks = TicksAfter(d)]

\* the subprocess ends and its stdout closes: the loop ends normally whatever the
\* pipeline's fate was (no exit or error listener, stderr discarded), then the
\* pending deletes are flushed
EndOfStream(r, ok, d) ==
  /\ runs[r].pc = "await"
  /\ runs[r].proc = "running"
  /\ Flush(r, [runs[r] EXCEPT !.proc = IF ok THEN "exited" ELSE "failed"], 1, d)

\* reading the line source throws: the catch block yields the error event
StreamError(r) ==
  /\ runs[r].pc = "await"
  /\ runs[r].proc = "running"
  /\ Advance(r, Yield([runs[r] EXCEPT !.readFailed = TRUE], heap, streamCache, "yError", ErrorEv))
  /\ UNCHANGED <<now, budget>>

\* the consumer asks for the next event: the generator runs on from its yield
Resume(r, d) ==
  /\ runs[r].pc \in YieldPcs
  /\ LET rs == runs[r]
         same == [rs |-> rs, h |-> heap, sc |-> streamCache]
     IN  IF rs.pc = "yFlush" THEN Flush(r, rs, rs.idx + 1, d)
         ELSE /\ d = 0
              /\ UNCHANGED <<now, budget>>
              /\ CASE rs.pc = "yProgress" -> Advance(r, LineBody(rs, heap, streamCache, r, rs.line))
                   [] rs.pc = "yChange" -> Advance(r, [same EXCEPT !.rs = [rs EXCEPT !.pc = "await"]])
                   [] rs.pc = "yReplay" -> Advance(r, ReplayFrom(rs, heap, streamCache, rs.idx + 1))
                   [] rs.pc = "yDoneCached" -> Advance(r, [same EXCEPT !.rs = [rs EXCEPT !.pc = "closed"]])
                   [] OTHER -> Advance(r, [same EXCEPT !.rs = Finally(rs)])

\* the consumer leaves its for-await loop at an event (break, or its body throws):
\* generator.return() runs the finally block if the try block was entered
Abandon(r) ==
  /\ runs[r].pc \in YieldPcs
  /\ runs[r].consumer = "forAwait"
  /\ LET rs == [runs[r] EXCEPT !.abandoned = TRUE]
     IN  Advance(r, [rs |-> IF rs.hit THEN [rs EXCEPT !.pc = "closed"] ELSE Finally(rs),
                     h |-> heap, sc |-> streamCache])
  /\ UNCHANGED <<now, budget>>

(***************************************************************************)
(* buildFileIndex and its callers                                          *)
(***************************************************************************)
Last(s) == s[Len(s)]

\* no invocation of buildFileIndex yet; peer holds the frame of a second invocation
\* that runs at the same time, while the steps of this one are taken
IdleBuild ==
  [pc |-> "idle", snapshots |-> <<>>, i |-> 0, run |-> 0, streams |-> <<>>, force |-> FALSE,
   since |-> 0, before |-> EmptyDB, crashed |-> FALSE, peer |-> <<>>]

Building == build.pc \in {"loop", "stream"}

\* snapshots.findIndex(s => s.path === path) + 1, counted from 0 as the source does
startAfter(snapshots, path) ==
  IF \E k \in 1..Len(snapshots) : snapshots[k].path = path
  THEN SetMin({k \in 1..Len(snapshots) : snapshots[k].path = path})
  ELSE 0

\* the start index of buildFileIndex
startIndex(snapshots, metadata, force) ==
  IF metadata.present /\ metadata.last_indexed_snapshot # <<>> /\ ~force
  THEN startAfter(snapshots, metadata.last_indexed_snapshot)
  ELSE 0

\* the creation time of the snapshot that the metadata records as the last
\* indexed one (0: no progress recorded)
CreatedAtOf(path) ==
  IF \E k \in 1..Len(Snaps) : Snaps[k] = path
  THEN CHOOSE k \in 1..Len(Snaps) : Snaps[k] = path
  ELSE 0

\* buildFileIndex(subvolumePath, {force}) up to its loop: the catalog and the
\* metadata are read and the start index is chosen
Invoke(force) ==
  /\ ~Building
  /\ \A q \in DOMAIN runs : ~InFlight(runs[q])
  /\ budget.builds > 0
  /\ LET metadata == IF force THEN NoMeta ELSE getIndexMetadata(database, Subvol)
     IN  build' = [IdleBuild EXCEPT !.pc = "loop", !.snapshots = catalog,
                                    !.i = startIndex(catalog, metadata, force),
                                    !.force = force,
                                    !.since = IF metadata.present
                                              THEN CreatedAtOf(metadata.last_indexed_snapshot)
                                              ELSE 0,
                                    !.before = database]
  /\ budget' = [budget EXCEPT !.builds = @ - 1]
  /\ UNCHANGED <<runs, heap, streamCache, now, lastClosed, catalog, dump, database>>

\* the invocation waits for its comparison to read a line, or it is over:
\* other work of the process runs
AtAwait ==
  \/ build.pc = "stream" /\ runs[build.run].pc = "await"
  \/ build.pc \in {"returned", "failed"}

\* a second request to the streaming file-history route while the build of
\* the first one waits for its comparison: buildFileIndex(subvolumePath) is
\* called again, nothing keeps it from running beside the first
InvokeConcurrently ==
  /\ build.pc = "stream"
  /\ runs[build.run].pc = "await"
  /\ build.peer = <<>>
  /\ budget.builds > 0
  /\ LET metadata == getIndexMetadata(database, Subvol)
     IN  build' = [IdleBuild EXCEPT !.pc = "loop", !.snapshots = catalog,
                                    !.i = startIndex(catalog, metadata, FALSE),
                                    !.since = IF metadata.present
                                              THEN CreatedAtOf(metadata.last_indexed_snapshot)
                                              ELSE 0,
                                    !.before = database,
                                    !.peer = <<[build EXCEPT !.peer = <<>>]>>]
  /\ budget' = [budget EXCEPT !.builds = @ - 1]
  /\ UNCHANGED <<runs, heap, streamCache, now, lastClosed, catalog, dump, database>>

\* the event loop goes on with the other invocation
Switch ==
  /\ build.peer # <<>>
  /\ AtAwait
  /\ build.peer[1].pc \notin {"returned", "failed"}
  /\ build' = [build.peer[1] EXCEPT !.peer = <<[build EXCEPT !.peer = <<>>]>>]
  /\ UNCHANGED <<runs, heap, streamCache, now, lastClosed, budget, catalog, dump, database>>

\* a status that is complete from the first iteration on
statusAlwaysComplete(i, length) == "complete"

\* the status that a loop iteration writes: complete for the last index only
statusAt(i, length) == IF i = length - 1 THEN "complete" ELSE "building"

\* "Mark snapshot as indexed" at the end of iteration i
MarkIndexed(d, snapshots, i) ==
  updateIndexMetadata(d, snapshots[i + 1].path, i + 1, Len(snapshots),
                      statusAt(i, Len(snapshots)))

\* the loop condition fails: buildFileIndex returns
Return ==
  /\ build.pc = "loop"
  /\ build.i >= Len(build.snapshots)
  /\ build' = [build EXCEPT !.pc = "returned"]
  /\ UNCHANGED <<runs, heap, streamCache, now, lastClosed, budget, catalog, dump, database>>

\* the iteration of the first snapshot of the catalog: nothing to compare
FirstSnapshot ==
  /\ build.pc = "loop"
  /\ build.i < Len(build.snapshots)
  /\ build.i = 0
  /\ database' = MarkIndexed(database, build.snapshots, build.i)
  /\ build' = [build EXCEPT !.i = @ + 1, !.before = database']
  /\ UNCHANGED <<runs, heap, streamCache, now, lastClosed, budget, catalog, dump>>

\* the pair that iteration i compares
PairAt(snapshots, i) == <<snapshots[i].path, snapshots[i + 1].path>>

\* an iteration with a previous snapshot: streamChanges(previous.path,
\* current.path) is called and runs to its first yield
BeginPair(r) ==
  /\ build.pc = "loop"
  /\ build.i < Len(build.snapshots)
  /\ build.i > 0
  /\ Start(r, PairAt(build.snapshots, build.i), "forAwait", FALSE, 0)
  /\ build' = [build EXCEPT !.pc = "stream", !.run = r, !.streams = Append(@, r)]
  /\ UNCHANGED <<catalog, dump, database>>

\* the subprocess writes the next line of the dump of the pair
ReadDump(r) ==
  /\ runs[r].pc = "await"
  /\ runs[r].lineCount < Len(dump[runs[r].pair])
  /\ ReadLine(r, dump[runs[r].pair][runs[r].lineCount + 1])
  /\ UNCHANGED ixvars

\* the subprocess has written the whole dump and exits
EndDump(r) ==
  /\ runs[r].pc = "await"
  /\ runs[r].lineCount = Len(dump[runs[r].pair])
  /\ EndOfStream(r, TRUE, 0)
  /\ UNCHANGED ixvars

\* the body of the for-await loop of buildFileIndex for the event that its
\* stream has yielded, then the request for the next event; when
\* processFileChange throws, the loop is left and buildFileIndex rejects
IndexEvent(r, found) ==
  /\ build.pc = "stream"
  /\ build.run = r
  /\ runs[r].pc \in YieldPcs
  /\ LET event == Last(runs[r].events)
         current == build.snapshots[build.i + 1]
     IN  IF event.type = "change"
         THEN /\ found \in Lookups(database, event.data)
              /\ LET res == processFileChange(database, event.data, current, found)
                 IN  IF res.ok
                     THEN /\ database' = res.db
                          /\ Resume(r, 0)
                          /\ UNCHANGED <<catalog, dump, build>>
                     ELSE /\ Abandon(r)
                          /\ build' = [build EXCEPT !.pc = "failed"]
                          /\ UNCHANGED <<catalog, dump, database>>
         ELSE /\ found = 0
              /\ Resume(r, 0)
              /\ UNCHANGED ixvars

\* the stream of the pair is finished: the snapshot is marked as indexed
EndPair ==
  /\ build.pc = "stream"
  /\ runs[build.run].pc = "closed"
  /\ database' = MarkIndexed(database, build.snapshots, build.i)
  /\ build' = [build EXCEPT !.pc = "loop", !.i = @ + 1, !.before = database']
  /\ UNCHANGED <<runs, heap, streamCache, now, lastClosed, budget, catalog, dump>>

\* a viewer compares a pair of snapshots (the stream-changes route) while no
\* index is being built
View(r, pair) ==
  /\ ~Building
  /\ build.pc = "idle"
  /\ \A q \in DOMAIN runs : ~InFlight(runs[q])
  /\ Cardinality({q \in DOMAIN runs : runs[q].pc # "idle"}) < MaxViews
  /\ Start(r, pair, "forAwait", FALSE, 0)
  /\ UNCHANGED ixvars

\* the for-await loop of the route takes the next event
ViewNext(r) ==
  /\ ~Building
  /\ Resume(r, 0)
  /\ UNCHANGED ixvars

\* the process is stopped while buildFileIndex runs: the database keeps what
\* was written, the generator and the module-level cache are gone
Crash ==
  /\ Building
  /\ runs' = [q \in DOMAIN runs |->
                IF InFlight(runs[q]) THEN [runs[q] EXCEPT !.pc = "closed", !.abandoned = TRUE]
                ELSE runs[q]]
  /\ streamCache' = [k \in DOMAIN streamCache |-> NoEntry]
  /\ lastClosed' = 0
  /\ build' = [build EXCEPT !.pc = "stopped", !.crashed = TRUE]
  /\ UNCHANGED <<heap, now, budget, catalog, dump, database>>

\* a new snapshot of the subvolume is taken
CreateSnapshot(k) ==
  /\ ~Building
  /\ k \in 1..Len(Snaps)
  /\ k = budget.snaps + 1
  /\ catalog' = Append(catalog, Snapshot(Snaps[k], k))
  /\ budget' = [budget EXCEPT !.snaps = k]
  /\ UNCHANGED <<runs, heap, streamCache, now, lastClosed, dump, database, build>>

\* a snapshot of the subvolume is deleted
DeleteSnapshot(k) ==
  /\ ~Building
  /\ k \in 1..Len(catalog)
  /\ budget.deletes > 0
  /\ catalog' = SubSeq(catalog, 1, k - 1) \o SubSeq(catalog, k + 1, Len(catalog))
  /\ budget' = [budget EXCEPT !.deletes = @ - 1]
  /\ UNCHANGED <<runs, heap, streamCache, now, lastClosed, dump, database, build>>

\* rebuildIndex(subvolumePath) up to the loop of buildFileIndex: the rows of
\* the root are deleted, then buildFileIndex starts with force
Rebuild ==
  /\ ~Building
  /\ \A q \in DOMAIN runs : ~InFlight(runs[q])
  /\ budget.builds > 0
  /\ database' = rebuildClear(database, Subvol)
  /\ build' = [IdleBuild EXCEPT !.pc = "loop", !.snapshots = catalog,
                                !.i = startIndex(catalog, NoMeta, TRUE),
                                !.force = TRUE, !.before = database']
  /\ budget' = [budget EXCEPT !.builds = @ - 1]
  /\ UNCHANGED <<runs, heap, streamCache, now, lastClosed, catalog, dump>>

(***************************************************************************)
(* Spec: comparisons of one snapshot pair, one at a time and consumed to   *)
(* the end, over every stream of up to MaxLines lines of Lines; the        *)
(* comparison that follows a completed one replays the cache.              *)
(***************************************************************************)
InitState ==
  /\ runs = [r \in RunIds |-> IdleRun]
  /\ heap = [r \in RunIds |-> <<>>]
  /\ streamCache = [k \in CacheKeys |-> NoEntry]
  /\ now = 0
  /\ lastClosed = 0
  /\ catalog = <<>>
  /\ dump = [p \in ChainPairs |-> <<>>]
  /\ database = EmptyDB
  /\ build = IdleBuild

Init ==
  /\ InitState
  /\ budget = [lines |-> MaxLines, ticks |-> 0, bursts |-> 0]

\* a comparison and the one that follows it
TwoRuns == {1, 2}

Next ==
  \/ \E r \in TwoRuns, consumer \in Consumers :
       Quiet /\ Start(r, <<Snap1, Snap2>>, consumer, FALSE, 0) /\ UNCHANGED ixvars
  \/ \E r \in RunIds, line \in Lines : ReadLine(r, line) /\ UNCHANGED ixvars
  \/ \E r \in RunIds : EndOfStream(r, TRUE, 0) /\ UNCHANGED ixvars
  \/ \E r \in RunIds : Resume(r, 0) /\ UNCHANGED ixvars

Spec == Init /\ [][Next]_vars

(***************************************************************************)
(* SpecRun: the life of a comparison of one snapshot pair and of the one   *)
(* that follows it, over RunLines: ignored lines and progress events, a    *)
(* failing subprocess, a read error, a consumer that leaves early.         *)
(***************************************************************************)
InitRun ==
  /\ InitState
  /\ budget = [lines |-> MaxRunLines, ticks |-> 0, bursts |-> MaxBursts]

NextRun ==
  \/ \E r \in TwoRuns :
       Quiet /\ Start(r, <<Snap1, Snap2>>, "forAwait", FALSE, 0) /\ UNCHANGED ixvars
  \/ \E r \in RunIds, line \in RunLines : ReadLine(r, line) /\ UNCHANGED ixvars
  \/ \E r \in RunIds : ReadIgnored(r) /\ UNCHANGED ixvars
  \/ \E r \in RunIds, ok \in BOOLEAN : EndOfStream(r, ok, 0) /\ UNCHANGED ixvars
  \/ \E r \in RunIds : StreamError(r) /\ UNCHANGED ixvars
  \/ \E r \in RunIds : Resume(r, 0) /\ UNCHANGED ixvars
  \/ \E r \in RunIds : Abandon(r) /\ UNCHANGED ixvars

SpecRun == InitRun /\ [][NextRun]_vars

(***************************************************************************)
(* SpecCache: up to MaxRuns comparisons of two snapshot pairs, one after    *)
(* the other, over CacheLines, with the clock and the route's forced-fresh *)
(* requests.                                                               *)
(***************************************************************************)
InitCache ==
  /\ InitState
  /\ budget = [lines |-> MaxCacheLines, ticks |-> MaxTicks, bursts |-> 0]

NextCache ==
  \/ \E r \in RunIds, pair \in Pairs, noCache \in BOOLEAN, d \in Elapsed :
       Quiet /\ Start(r, pair, "forAwait", noCache, d) /\ UNCHANGED ixvars
  \/ \E r \in RunIds, line \in CacheLines : ReadLine(r, line) /\ UNCHANGED ixvars
  \/ \E r \in RunIds, d \in Elapsed : EndOfStream(r, TRUE, d) /\ UNCHANGED ixvars
  \/ \E r \in RunIds, d \in Elapsed : Resume(r, d) /\ UNCHANGED ixvars

SpecCache == InitCache /\ [][NextCache]_vars

(***************************************************************************)
(* SpecIndex: one buildFileIndex over a chain of three snapshots, for      *)
(* every dump of up to MaxIndexLines (first pair) and MaxLaterLines        *)
(* (second pair) lines of IndexLines, after up to MaxViews comparisons     *)
(* by a viewer that fill the cache.                                        *)
(***************************************************************************)
\* the generators of the index specifications: one per comparison
IndexRunIds == 1..(MaxViews + MaxBuilds + 1)

\* the sequences of at most n lines of the alphabet
RECURSIVE DumpsUpTo(_, _)
DumpsUpTo(alphabet, n) ==
  IF n = 0 THEN {<<>>}
  ELSE LET shorter == DumpsUpTo(alphabet, n - 1)
       IN  shorter \cup {Append(s, l) : s \in shorter, l \in alphabet}

\* the pairs that a viewer compares before the index is built
ViewedPairs == Pairs

InitIndexState ==
  /\ runs = [r \in IndexRunIds |-> IdleRun]
  /\ heap = [r \in IndexRunIds |-> <<>>]
  /\ streamCache = [k \in CacheKeys |-> NoEntry]
  /\ now = 0
  /\ lastClosed = 0
  /\ database = EmptyDB
  /\ build = IdleBuild

InitIndex ==
  /\ InitIndexState
  /\ catalog = [k \in 1..3 |-> Snapshot(Snaps[k], k)]
  /\ \E first \in DumpsUpTo(IndexLines, MaxIndexLines), later \in DumpsUpTo(IndexLines, MaxLaterLines) :
       dump = [p \in ChainPairs |->
                 IF p = <<Snap1, Snap2>> THEN first ELSE IF p = <<Snap2, Snap3>> THEN later ELSE <<>>]
  /\ budget = [lines |-> 2 * (MaxIndexLines + MaxLaterLines), ticks |-> 0, bursts |-> 0,
               builds |-> 1, snaps |-> 3, deletes |-> 0]

NextIndex ==
  \/ \E r \in IndexRunIds, pair \in ViewedPairs : View(r, pair)
  \/ \E r \in IndexRunIds : ViewNext(r)
  \/ Invoke(FALSE)
  \/ FirstSnapshot
  \/ \E r \in IndexRunIds : BeginPair(r)
  \/ \E r \in IndexRunIds : ReadDump(r)
  \/ \E r \in IndexRunIds : EndDump(r)
  \/ \E r \in IndexRunIds, found \in 0..Len(database.file_timelines) : IndexEvent(r, found)
  \/ EndPair
  \/ Return

SpecIndex == InitIndex /\ [][NextIndex]_vars

(***************************************************************************)
(* SpecResume: up to MaxBuilds invocations of buildFileIndex over a        *)
(* catalog that gains and loses snapshots, with the process stopped at     *)
(* any point, for every dump of up to MaxResumeLines lines of ResumeLines. *)
(***************************************************************************)
InitResume ==
  /\ InitIndexState
  /\ catalog = [k \in 1..2 |-> Snapshot(Snaps[k], k)]
  /\ \E first \in DumpsUpTo(ResumeLines, MaxResumeLines) :
       dump = [p \in ChainPairs |-> IF p = <<Snap1, Snap2>> THEN first ELSE <<>>]
  /\ budget = [lines |-> (MaxBuilds + 1) * MaxResumeLines, ticks |-> 0, bursts |-> 0,
               builds |-> MaxBuilds, snaps |-> 2, deletes |-> MaxDeletes]

NextResume ==
  \/ Invoke(FALSE)
  \/ FirstSnapshot
  \/ \E r \in IndexRunIds : BeginPair(r)
  \/ \E r \in IndexRunIds : ReadDump(r)
  \/ \E r \in IndexRunIds : EndDump(r)
  \/ \E r \in IndexRunIds, found \in 0..Len(database.file_timelines) : IndexEvent(r, found)
  \/ EndPair
  \/ Return
  \/ Crash
  \/ \E k \in 1..Len(Snaps) : CreateSnapshot(k)
  \/ \E k \in 1..Len(Snaps) : DeleteSnapshot(k)

SpecResume == InitResume /\ [][NextResume]_vars

(***************************************************************************)
(* SpecFault: one buildFileIndex over a chain of three snapshots whose     *)
(* comparisons can end with an error event, for every dump of up to        *)
(* MaxFaultLines (first pair) and MaxLaterLines (second pair) lines of     *)
(* FaultLines.                                                             *)
(***************************************************************************)
InitFault ==
  /\ InitIndexState
  /\ catalog = [k \in 1..3 |-> Snapshot(Snaps[k], k)]
  /\ \E first \in DumpsUpTo(FaultLines, MaxFaultLines), later \in DumpsUpTo(FaultLines, MaxLaterLines) :
       dump = [p \in ChainPairs |->
                 IF p = <<Snap1, Snap2>> THEN first ELSE IF p = <<Snap2, Snap3>> THEN later ELSE <<>>]
  /\ budget = [lines |-> MaxFaultLines + MaxLaterLines, ticks |-> 0, bursts |-> 0,
               builds |-> 1, snaps |-> 3, deletes |-> 0]

NextFault ==
  \/ Invoke(FALSE)
  \/ FirstSnapshot
  \/ \E r \in IndexRunIds : BeginPair(r)
  \/ \E r \in IndexRunIds : ReadDump(r)
  \/ \E r \in IndexRunIds : EndDump(r)
  \/ \E r \in IndexRunIds : StreamError(r) /\ UNCHANGED ixvars
  \/ \E r \in IndexRunIds, found \in 0..Len(database.file_timelines) : IndexEvent(r, found)
  \/ EndPair
  \/ Return

SpecFault == InitFault /\ [][NextFault]_vars

(***************************************************************************)
(* SpecRebuild: buildFileIndex and rebuildIndex of one root, up to         *)
(* MaxBuilds invocations in all, in a database that also holds the index   *)
(* of another root, for every dump of up to MaxResumeLines lines of        *)
(* RebuildLines.                                                           *)
(***************************************************************************)
InitRebuild ==
  /\ runs = [r \in IndexRunIds |-> IdleRun]
  /\ heap = [r \in IndexRunIds |-> <<>>]
  /\ streamCache = [k \in CacheKeys |-> NoEntry]
  /\ now = 0
  /\ lastClosed = 0
  /\ database = OtherIndexed
  /\ build = IdleBuild
  /\ catalog = [k \in 1..2 |-> Snapshot(Snaps[k], k)]
  /\ \E first \in DumpsUpTo(RebuildLines, MaxResumeLines) :
       dump = [p \in ChainPairs |-> IF p = <<Snap1, Snap2>> THEN first ELSE <<>>]
  /\ budget = [lines |-> MaxBuilds * MaxResumeLines, ticks |-> 0, bursts |-> 0,
               builds |-> MaxBuilds, snaps |-> 2, deletes |-> 0]

NextRebuild ==
  \/ Invoke(FALSE)
  \/ Rebuild
  \/ FirstSnapshot
  \/ \E r \in IndexRunIds : BeginPair(r)
  \/ \E r \in IndexRunIds : ReadDump(r)
  \/ \E r \in IndexRunIds : EndDump(r)
  \/ \E r \in IndexRunIds, found \in 0..Len(database.file_timelines) : IndexEvent(r, found)
  \/ EndPair
  \/ Return

SpecRebuild == InitRebuild /\ [][NextRebuild]_vars

(***************************************************************************)
(* SpecConcurrent: two comparisons, each of one of two snapshot pairs, that *)
(* run at the same time, interleaved at their yields and reads, with both  *)
(* consumers, failing subprocesses, read errors and consumers that leave   *)
(* early, for every dump of up to MaxConcLines lines of ConcLines.         *)
(***************************************************************************)
InitConcurrent ==
  /\ runs = [r \in RunIds |-> IdleRun]
  /\ heap = [r \in RunIds |-> <<>>]
  /\ streamCache = [k \in CacheKeys |-> NoEntry]
  /\ now = 0
  /\ lastClosed = 0
  /\ catalog = <<>>
  /\ database = EmptyDB
  /\ build = IdleBuild
  /\ \E first \in DumpsUpTo(ConcLines, MaxConcLines), later \in DumpsUpTo(ConcLines, 1) :
       dump = [p \in ChainPairs |->
                 IF p = <<Snap1, Snap2>> THEN first ELSE IF p = <<Snap2, Snap3>> THEN later ELSE <<>>]
  /\ budget = [lines |-> 2 * MaxConcLines, ticks |-> 0, bursts |-> 0]

NextConcurrent ==
  \/ \E r \in TwoRuns, pair \in Pairs, consumer \in Consumers :
       Start(r, pair, consumer, FALSE, 0) /\ UNCHANGED ixvars
  \/ \E r \in TwoRuns : ReadDump(r)
  \/ \E r \in TwoRuns : EndDump(r)
  \/ \E r \in TwoRuns : EndOfStream(r, FALSE, 0) /\ UNCHANGED ixvars
  \/ \E r \in TwoRuns : StreamError(r) /\ UNCHANGED ixvars
  \/ \E r \in TwoRuns : Resume(r, 0) /\ UNCHANGED ixvars
  \/ \E r \in TwoRuns : Abandon(r) /\ UNCHANGED ixvars

SpecConcurrent == InitConcurrent /\ [][NextConcurrent]_vars

(***************************************************************************)
(* SpecLookup: one buildFileIndex over a chain of two snapshots, for every *)
(* dump of up to MaxLookupLines lines of LookupLines: files that are       *)
(* renamed and written again under their old name.                         *)
(***************************************************************************)
InitLookup ==
  /\ InitIndexState
  /\ catalog = [k \in 1..2 |-> Snapshot(Snaps[k], k)]
  /\ \E first \in DumpsUpTo(LookupLines, MaxLookupLines) :
       dump = [p \in ChainPairs |-> IF p = <<Snap1, Snap2>> THEN first ELSE <<>>]
  /\ budget = [lines |-> MaxLookupLines, ticks |-> 0, bursts |-> 0,
               builds |-> 1, snaps |-> 2, deletes |-> 0]

NextLookup ==
  \/ Invoke(FALSE)
  \/ FirstSnapshot
  \/ \E r \in IndexRunIds : BeginPair(r)
  \/ \E r \in IndexRunIds : ReadDump(r)
  \/ \E r \in IndexRunIds : EndDump(r)
  \/ \E r \in IndexRunIds, found \in 0..Len(database.file_timelines) : IndexEvent(r, found)
  \/ EndPair
  \/ Return

SpecLookup == InitLookup /\ [][NextLookup]_vars

(***************************************************************************)
(* SpecTwoBuilds: two requests to the streaming file-history route, the    *)
(* second while the build of the first waits for its comparison, over a    *)
(* chain of two snapshots, for every dump of up to MaxConcLines lines of   *)
(* ConcLines.                                                              *)
(***************************************************************************)
InitTwoBuilds ==
  /\ InitIndexState
  /\ catalog = [k \in 1..2 |-> Snapshot(Snaps[k], k)]
  /\ \E first \in DumpsUpTo(ConcLines, MaxConcLines) :
       dump = [p \in ChainPairs |-> IF p = <<Snap1, Snap2>> THEN first ELSE <<>>]
  /\ budget = [lines |-> 2 * MaxConcLines, ticks |-> 0, bursts |-> 0,
               builds |-> 2, snaps |-> 2, deletes |-> 0]

NextTwoBuilds ==
  \/ Invoke(FALSE)
  \/ InvokeConcurrently
  \/ Switch
  \/ FirstSnapshot
  \/ \E r \in TwoRuns : BeginPair(r)
  \/ \E r \in TwoRuns : ReadDump(r)
  \/ \E r \in TwoRuns : EndDump(r)
  \/ \E r \in TwoRuns, found \in 0..Len(database.file_timelines) : IndexEvent(r, found)
  \/ EndPair
  \/ Return

SpecTwoBuilds == InitTwoBuilds /\ [][NextTwoBuilds]_vars

(***************************************************************************)
(* Properties                                                              *)
(***************************************************************************)
\* the change events a run has yielded, as its consumer received them
ChangeEvents(r) == SelectSeq(runs[r].events, LAMBDA e : e.type = "change")

\* the aggregated set of a run: the values of its change map
Aggregated(r) == [i \in 1..Len(runs[r].changeMap) |-> Deref(heap, runs[r].changeMap[i].val)]

\* the run was consumed to its end
Ended(r) == runs[r].pc = "closed" /\ ~runs[r].abandoned

\* the run ended with the done event
EndedDone(r) == Ended(r) /\ runs[r].events # <<>> /\ Last(runs[r].events).type = "done"

\* C1: no change event that a run has yielded (per line, at the flush of the
\* pending orphan deletes, or replayed from the cache), no entry of a run's
\* aggregated set and no cached change has a path that matches the orphan
\* pattern.
C1_NoOrphanPath ==
  /\ \A r \in RunIds :
       /\ \A i \in 1..Len(runs[r].events) :
            runs[r].events[i].type = "change" => ~isOrphanPath(runs[r].events[i].data.path)
       /\ \A i \in 1..Len(Aggregated(r)) : ~isOrphanPath(Aggregated(r)[i].path)
  /\ \A k \in CacheKeys :
       \A i \in 1..Len(streamCache[k].changes) :
         ~isOrphanPath(Deref(heap, streamCache[k].changes[i]).path)

\* a comparison whose flush met a pending delete with an orphan path has ended
\* with changes, and the comparison after it has replayed them from the cache
C1_Witness ==
  /\ EndedDone(1)
  /\ \E i \in 1..Len(runs[1].pendingOrphanDeletes) :
       isOrphanPath(Deref(heap, runs[1].pendingOrphanDeletes[i].val).path)
  /\ ChangeEvents(1) # <<>>
  /\ EndedDone(2)
  /\ runs[2].hit
  /\ ChangeEvents(2) # <<>>

\* C2: the aggregated change map of a run, at any point of the run, and the set
\* that completion has put in the cache hold at most one FileChange per
\* (kind, path).
C2_OnePerKindAndPath ==
  /\ \A r \in RunIds :
       \A i, j \in 1..Len(Aggregated(r)) :
         (Aggregated(r)[i].type = Aggregated(r)[j].type /\ Aggregated(r)[i].path = Aggregated(r)[j].path)
           => i = j
  /\ \A k \in CacheKeys :
       \A i, j \in 1..Len(streamCache[k].changes) :
         LET a == Deref(heap, streamCache[k].changes[i])
             b == Deref(heap, streamCache[k].changes[j])
         IN  (a.type = b.type /\ a.path = b.path) => i = j

\* a completed comparison in which a change met an entry of its kind and path:
\* more change events than entries, one of them a pending delete that a removal
\* line finalised
C2_Witness ==
  /\ EndedDone(1)
  /\ Len(runs[1].changeMap) >= 1
  /\ Len(ChangeEvents(1)) > Len(runs[1].changeMap)
  /\ \E i \in 1..Len(runs[1].input) : runs[1].input[i] = LnRenameToOrphan
  /\ \E i \in 1..Len(runs[1].input) : runs[1].input[i] \in {LnRmdirOrphan, LnUnlinkOrphan}
  /\ streamCache[getCacheKey(Snap1, Snap2)].present

\* the sum of the len values of the first n lines of input that are write lines
\* for path
RECURSIVE WriteLenSum(_, _, _)
WriteLenSum(input, path, n) ==
  IF n = 0 THEN 0
  ELSE LET info == LineTable[input[n]]
       IN  WriteLenSum(input, path, n - 1) +
           (IF info.parsed.type = TxtWrite /\ info.strippedPath = path THEN OrZero(info.len) ELSE 0)

\* the paths of the write lines of run r that the orphan rules leave alone
WrittenPaths(r) ==
  {LineTable[runs[r].input[n]].strippedPath : n \in
     {m \in 1..Len(runs[r].input) :
        /\ LineTable[runs[r].input[m]].parsed.type = TxtWrite
        /\ ~isOrphanPath(LineTable[runs[r].input[m]].rawPath)
        /\ ~isOrphanPath(LineTable[runs[r].input[m]].strippedPath)
        /\ LineTable[runs[r].input[m]].strippedPath \notin runs[r].newlyCreatedFiles}}

\* C3: when a comparison has completed, the write lines it read for one path
\* have merged into exactly one FileChange of kind write for that path in its
\* aggregated set, and the size of that FileChange is the sum of the len values
\* of those lines (100 and 50 give 150).
C3_WriteSizesAdd ==
  \A r \in RunIds :
    (EndedDone(r) /\ ~runs[r].hit) =>
      \A path \in WrittenPaths(r) :
        LET is == {i \in 1..Len(Aggregated(r)) :
                     Aggregated(r)[i].type = TxtWrite /\ Aggregated(r)[i].path = path}
        IN  /\ Cardinality(is) = 1
            /\ \A i \in is :
                 OrZero(Aggregated(r)[i].size) = WriteLenSum(runs[r].input, path, Len(runs[r].input))

PathRealdir == <<"r", "e", "a", "l", "d", "i", "r">>

PathOrphan100 == <<"o", "1", "0", "0", "-", "5", "-", "0">>

\* the positions of input that hold one of lines
Positions(input, lines) == {n \in 1..Len(input) : input[n] \in lines}

\* the change events of run r whose path or oldPath is path
EventsFor(r, path) ==
  SelectSeq(ChangeEvents(r), LAMBDA e : e.data.path = path \/ e.data.oldPath = path)

\* the stream of run r holds the scenario: realdir is renamed into o100-5-0
\* once, that orphan is removed once and later, and no other line of the
\* stream removes realdir or renames something else into the orphan
RenameThenRemoval(r) ==
  LET input == runs[r].input
      renames == Positions(input, {LnRenameToOrphan})
      removals == Positions(input, {LnRmdirOrphan, LnUnlinkOrphan})
  IN  /\ Cardinality(renames) = 1
      /\ Cardinality(removals) = 1
      /\ SetMin(renames) < SetMin(removals)
      /\ Positions(input, {LnUnlinkReal, LnRenameOrphanToOrphan}) = {}

\* the events that the step has added to the stream of run r
NewEvents(r) == SubSeq(runs'[r].events, Len(runs[r].events) + 1, Len(runs'[r].events))

\* the step reads line in run r
Reads(r, line) == runs'[r].input = Append(runs[r].input, line)

\* what C4 asks of one step
C4_Step ==
  \A r \in RunIds :
    /\ Reads(r, LnRenameToOrphan) =>
         /\ NewEvents(r) = <<>>
         /\ runs'[r].changeMap = runs[r].changeMap
    /\ \A line \in {LnRmdirOrphan, LnUnlinkOrphan} :
         (/\ Reads(r, line)
          /\ MapHas(runs[r].pendingOrphanDeletes, PathOrphan100)
          /\ Deref(heap, MapGet(runs[r].pendingOrphanDeletes, PathOrphan100)).path = PathRealdir)
         => /\ Len(NewEvents(r)) = 1
            /\ NewEvents(r)[1].type = "change"
            /\ NewEvents(r)[1].data.path = PathRealdir
            /\ NewEvents(r)[1].data.type = (IF line = LnRmdirOrphan THEN TxtRmdir ELSE TxtUnlink)
            /\ ~MapHas(runs'[r].pendingOrphanDeletes, PathOrphan100)

\* what C4 asks of the stream as a whole
C4_Stream ==
  \A r \in RunIds :
    /\ EventsFor(r, PathOrphan100) = <<>>
    /\ (EndedDone(r) /\ ~runs[r].hit /\ RenameThenRemoval(r)) =>
         /\ Len(EventsFor(r, PathRealdir)) = 1
         /\ EventsFor(r, PathRealdir)[1].data.type =
              (IF Positions(runs[r].input, {LnRmdirOrphan}) # {} THEN TxtRmdir ELSE TxtUnlink)
         /\ Cardinality({i \in 1..Len(Aggregated(r)) : Aggregated(r)[i].path = PathRealdir}) = 1

\* C4: the line that renames realdir into the orphan o100-5-0 emits nothing; the
\* rmdir or unlink of that orphan that comes later emits one change, with path
\* realdir and with the kind of the removal line, and ends the pending delete;
\* the whole stream holds exactly one change for realdir and none that refers to
\* o100-5-0.
C4_RenameThenRemoval == []C4_Stream /\ [][C4_Step]_vars

\* a comparison has completed whose stream renamed realdir into the orphan and
\* then removed the orphan with rmdir
C4_Witness ==
  /\ EndedDone(1)
  /\ ~runs[1].hit
  /\ RenameThenRemoval(1)
  /\ Positions(runs[1].input, {LnRmdirOrphan}) # {}
  /\ Len(runs[1].input) = MaxLines

PathNewfile == <<"n", "e", "w", "f", "i", "l", "e", ".", "t", "x", "t">>

\* what C5 asks of one step
C5_Step ==
  \A r \in RunIds :
    /\ Reads(r, LnRenameFromOrphan) =>
         /\ Len(NewEvents(r)) = 1
         /\ NewEvents(r)[1].type = "change"
         /\ NewEvents(r)[1].data = FileChange(TxtLink, PathNewfile, NoOldPath, NoSize)
         /\ \E i \in 1..Len(runs'[r].changeMap) :
              /\ Deref(heap', runs'[r].changeMap[i].val).type = TxtLink
              /\ Deref(heap', runs'[r].changeMap[i].val).path = PathNewfile
    /\ (Reads(r, LnWriteNew) /\ Positions(runs[r].input, {LnRenameFromOrphan}) # {}) =>
         /\ NewEvents(r) = <<>>
         /\ runs'[r].changeMap = runs[r].changeMap
         /\ heap' = heap

\* what C5 asks of the stream as a whole: when no write for newfile.txt comes
\* before the rename, the final set holds the link and no write for it
C5_Stream ==
  \A r \in RunIds :
    LET input == runs[r].input
        renames == Positions(input, {LnRenameFromOrphan})
        writes == Positions(input, {LnWriteNew})
    IN  (/\ EndedDone(r)
         /\ ~runs[r].hit
         /\ renames # {}
         /\ \A w \in writes : w > SetMin(renames))
        => /\ \E i \in 1..Len(Aggregated(r)) :
                Aggregated(r)[i].type = TxtLink /\ Aggregated(r)[i].path = PathNewfile
           /\ \A i \in 1..Len(Aggregated(r)) :
                ~(Aggregated(r)[i].type = TxtWrite /\ Aggregated(r)[i].path = PathNewfile)
           /\ \A i \in 1..Len(EventsFor(r, PathNewfile)) :
                EventsFor(r, PathNewfile)[i].data.type = TxtLink

\* C5: the line that renames the orphan o200-1-0 to newfile.txt emits the
\* change {link, newfile.txt}, and a write line for newfile.txt that comes later
\* in the comparison emits nothing and changes nothing: the final set holds no
\* write for newfile.txt.
C5_OrphanCreation == []C5_Stream /\ [][C5_Step]_vars

\* a comparison has completed whose stream renamed the orphan to newfile.txt
\* and then wrote to newfile.txt
C5_Witness ==
  /\ EndedDone(1)
  /\ ~runs[1].hit
  /\ \E i, j \in 1..Len(runs[1].input) :
       i < j /\ runs[1].input[i] = LnRenameFromOrphan /\ runs[1].input[j] = LnWriteNew
  /\ Positions(runs[1].input, {LnWriteNew}) # {}
  /\ Len(Aggregated(1)) >= 1

\* the positions of the terminal events in the stream of run r
Terminals(r) == {i \in 1..Len(runs[r].events) : runs[r].events[i].type \in {"done", "error"}}

\* C6: the stream of a run holds at most one terminal event (done or error),
\* and nothing after it; a stream that was consumed to its end, replayed from
\* the cache or not, holds exactly one, as its last event. So done and error
\* never both occur in one stream.
C6_OneTerminalEvent ==
  \A r \in RunIds :
    /\ Cardinality(Terminals(r)) <= 1
    /\ \A i \in Terminals(r) : i = Len(runs[r].events)
    /\ Ended(r) => Cardinality(Terminals(r)) = 1

\* a comparison consumed to its end has ended with error after other events, and
\* the next one with done
C6_Witness ==
  /\ Ended(1)
  /\ Len(runs[1].events) >= 2
  /\ Last(runs[1].events).type = "error"
  /\ EndedDone(2)
  /\ Len(runs[2].events) >= 2

\* the line source of run r failed: its subprocess failed, or reading a line
\* threw
SourceFailed(r) == runs[r].proc = "failed" \/ runs[r].readFailed

\* C7: a comparison whose subprocess or line source failed, consumed to its
\* end, has ended with the error event, holds exactly one error event and no
\* done event.
C7_FailureEndsWithError ==
  \A r \in RunIds :
    (Ended(r) /\ SourceFailed(r)) =>
      /\ runs[r].events # <<>>
      /\ Last(runs[r].events).type = "error"
      /\ Cardinality({i \in 1..Len(runs[r].events) : runs[r].events[i].type = "error"}) = 1
      /\ \A i \in 1..Len(runs[r].events) : runs[r].events[i].type # "done"

\* C8: a run that has ended, by completion, by an error or because its consumer
\* left at one of its events, has no running subprocess: if it spawned one,
\* the subprocess has exited or has been killed.
C8_SubprocessTerminated ==
  \A r \in RunIds :
    runs[r].pc = "closed" =>
      /\ runs[r].proc # "running"
      /\ ~runs[r].hit => runs[r].proc \in {"killed", "exited", "failed"}

\* a consumer has left a comparison at a progress event, in the middle of the
\* stream, and the next comparison has ended with an error: both subprocesses
\* were running and have been killed
C8_Witness ==
  /\ runs[1].pc = "closed"
  /\ runs[1].abandoned
  /\ runs[1].events # <<>>
  /\ Last(runs[1].events).type = "progress"
  /\ runs[1].proc = "killed"
  /\ Ended(2)
  /\ runs[2].readFailed
  /\ runs[2].proc = "killed"

\* the FileChange set that comparison r returns: the values of its change map,
\* or the changes it has replayed from the cache
ResultSet(r) ==
  IF runs[r].hit
  THEN [i \in 1..Len(ChangeEvents(r)) |-> ChangeEvents(r)[i].data]
  ELSE Aggregated(r)

\* comparison r started right after comparison p had ended with done, for the
\* same pair of snapshots, without the route's nocache, and less than CACHE_TTL
\* after p's result was stored
SecondWithinTTL(p, r) ==
  /\ runs[r].pc # "idle"
  /\ runs[r].follows = p
  /\ runs[r].pair = runs[p].pair
  /\ ~runs[r].noCache
  /\ EndedDone(p)
  /\ runs[r].startedAt - runs[p].stamp < CACHE_TTL

\* C9: the second of two consecutive comparisons of one pair within the TTL
\* window is served from the cache: it spawns no subprocess and reads no line,
\* and once it has ended it has returned the FileChange set and the summary of
\* the first.
C9_SecondFromCache ==
  \A p, r \in RunIds :
    SecondWithinTTL(p, r) =>
      /\ runs[r].hit
      /\ runs[r].proc = "none"
      /\ runs[r].input = <<>>
      /\ runs[r].lineCount = 0
      /\ Ended(r) =>
           /\ EndedDone(r)
           /\ ResultSet(r) = ResultSet(p)
           /\ Last(runs[r].events).summary = Last(runs[p].events).summary

\* the second comparison of a pair has ended CACHE_TTL - 1 after the first one
\* stored its result, and has returned a set that is not empty
C9_Witness ==
  /\ SecondWithinTTL(1, 2)
  /\ ~runs[1].hit
  /\ Ended(2)
  /\ runs[2].startedAt - runs[1].stamp = CACHE_TTL - 1
  /\ Len(ResultSet(2)) >= 1

\* the step is the first advance of comparison r: its cache lookup
Looks(r) == runs[r].pc = "idle" /\ runs'[r].pc # "idle"

\* what C10 asks of the lookup of a comparison that finds entry under key at
\* time now'
C10_Step ==
  \A r \in RunIds :
    Looks(r) =>
      LET key == getCacheKey(runs'[r].pair[1], runs'[r].pair[2])
          entry == IF runs'[r].noCache THEN NoEntry ELSE streamCache[key]
          fresh == entry.present /\ now' - entry.timestamp < CACHE_TTL
      IN  /\ runs'[r].hit <=> fresh
          /\ fresh => (runs'[r].cached = entry /\ streamCache'[key] = entry)
          /\ ~fresh => (runs'[r].cached = NoEntry /\ streamCache'[key] = NoEntry)
          /\ \A k \in CacheKeys \ {key} : streamCache'[k] = streamCache[k]

\* C10: a lookup returns the stored entry exactly when one is stored and
\* now - timestamp < CACHE_TTL, and leaves it in the cache; otherwise, and so
\* when now - timestamp = CACHE_TTL, it returns a miss and the key has no entry
\* afterwards.
C10_GetWithinTTL == [][C10_Step]_vars

\* a comparison has looked up the result that the comparison before it stored
\* exactly CACHE_TTL earlier: it missed, the entry is gone and a subprocess runs
C10_Witness ==
  /\ EndedDone(1)
  /\ ~runs[1].hit
  /\ runs[2].follows = 1
  /\ runs[2].pair = runs[1].pair
  /\ ~runs[2].noCache
  /\ runs[2].startedAt - runs[1].stamp = CACHE_TTL
  /\ ~runs[2].hit
  /\ runs[2].pc = "await"
  /\ runs[2].proc = "running"
  /\ ~streamCache[getCacheKey(runs[2].pair[1], runs[2].pair[2])].present

(***************************************************************************)
(* Properties of the TimelineIndexer                                       *)
(***************************************************************************)
\* the changes that buildFileIndex received from its n-th stream
Received(n) ==
  LET events == ChangeEvents(build.streams[n])
  IN  [k \in 1..Len(events) |-> events[k].data]

Elements(s) == {s[k] : k \in 1..Len(s)}

\* the invocation walked the whole chain of three snapshots from its start: in
\* the first pair one file was created and nothing else changed, in the second
\* pair that file was renamed and nothing else changed
CreatedThenRenamed ==
  /\ build.pc = "returned"
  /\ Len(build.snapshots) = 3
  /\ Len(build.streams) = 2
  /\ Len(Received(1)) = 1
  /\ Len(Received(2)) = 1
  /\ historyChangeType(Received(1)[1].type) = "created"
  /\ Received(2)[1].type = TxtRename
  /\ Received(2)[1].oldPath = Received(1)[1].path
  /\ Received(2)[1].path # Received(1)[1].path

\* C11: timeline continuity. When a file is created in the second snapshot of
\* a chain of three and renamed in the third, getFileHistory(newPath) returns a
\* timeline whose aliases include the original and the new path and whose
\* history has exactly two entries: created at the second snapshot, then
\* renamed at the third.
C11_TimelineContinuity ==
  CreatedThenRenamed =>
    LET original == Received(1)[1].path
        newPath == Received(2)[1].path
        found == getFileHistory(database, newPath)
    IN  /\ found # {}
        /\ \A timeline \in found :
             /\ {original, newPath} \subseteq Elements(timeline.aliases)
             /\ Len(timeline.history) = 2
             /\ timeline.history[1].change_type = "created"
             /\ timeline.history[1].snapshot_path = build.snapshots[2].path
             /\ timeline.history[2].change_type = "renamed"
             /\ timeline.history[2].snapshot_path = build.snapshots[3].path

\* C11 witness: the index of a chain in which a.txt was created, then renamed to
\* b.txt, has been built
C11_Witness ==
  /\ CreatedThenRenamed
  /\ getFileHistory(database, Received(2)[1].path) # {}

\* the paths that the database knows a file by
KnownPaths ==
  {database.file_timelines[i].current_path : i \in 1..Len(database.file_timelines)}
    \cup {database.file_aliases[k].path : k \in 1..Len(database.file_aliases)}

NoDuplicates(s) == \A i, j \in 1..Len(s) : s[i] = s[j] => i = j

\* C12: after any sequence of indexed changes, the aliases of every timeline
\* that getFileHistory returns are an ordered set: currentPath is the first
\* element and no path occurs twice.
C12_AliasesOrderedSet ==
  \A path \in KnownPaths :
    \A timeline \in getFileHistory(database, path) :
      /\ timeline.aliases[1] = timeline.currentPath
      /\ NoDuplicates(timeline.aliases)

\* the history entries of the timeline with the id
EntriesOf(id) == SelectSeq(database.file_history_entries, LAMBDA e : e.timeline_id = id)

\* the timeline was marked as deleted at some point of this run: only the
\* upsert of a deleted-kind change writes an entry of that type
WasDeleted(id) == \E k \in 1..Len(EntriesOf(id)) : EntriesOf(id)[k].change_type = "deleted"

\* C13 as stated: once a timeline's status is deleted, no later change of the
\* same buildFileIndex run sets it back to active.
C13_NeverReactivated ==
  \A i \in 1..Len(database.file_timelines) :
    WasDeleted(database.file_timelines[i].id) => database.file_timelines[i].status = "deleted"

\* a step that stores a history entry: a deleted timeline becomes active exactly
\* when the change is not a deletion, is stored through the upsert (it is not a
\* rename whose old path has a timeline) and its path is the timeline's
\* current path
C13_Step ==
  Len(database'.file_history_entries) = Len(database.file_history_entries) + 1 =>
    LET e == Last(database'.file_history_entries)
        upsert == ~(e.change_type = "renamed" /\ e.previous_path # Null
                      /\ TimelinesOf(database, e.previous_path) # {})
    IN  \A i \in 1..Len(database.file_timelines) :
          database.file_timelines[i].status = "deleted" =>
            (database'.file_timelines[i].status = "active"
               <=> (upsert /\ e.change_type # "deleted"
                      /\ e.path = database.file_timelines[i].current_path))

\* C13 amended: a deleted timeline is set back to active by, and only by, a
\* later created, modified or unmatched renamed change at its current path
\* (the upsert reuses the row); a rename of the timeline itself keeps its status.
C13_ReactivatedByUpsertOnly == [][C13_Step]_vars

\* C13 witness: a timeline that was deleted is active again when the run returns
C13_Witness ==
  /\ build.pc = "returned"
  /\ \E i \in 1..Len(database.file_timelines) :
       /\ WasDeleted(database.file_timelines[i].id)
       /\ database.file_timelines[i].status = "active"

\* the invocation found recorded progress and was not forced
Resuming == Building /\ ~build.force /\ build.since > 0

\* C14: when buildFileIndex is invoked without force and prior progress exists,
\* it resumes immediately after the last indexed snapshot, whatever list the
\* catalog returns: every snapshot that its loop reaches is newer than the
\* snapshot recorded as the last indexed one.
C14_ResumesAfterLastIndexed ==
  (Resuming /\ build.i < Len(build.snapshots)) =>
    build.snapshots[build.i + 1].createdAt > build.since

\* the outcomes of processing the changes in order from the outcomes in from:
\* an outcome is a store and whether processFileChange has returned every time
\* (ok); after a throw nothing more is processed
RECURSIVE AfterChanges(_, _, _)
AfterChanges(from, changes, snapshot) ==
  IF changes = <<>> THEN from
  ELSE AfterChanges(
         UNION {IF s.ok
                THEN {processFileChange(s.db, Head(changes), snapshot, f) :
                        f \in Lookups(s.db, Head(changes))}
                ELSE {s} : s \in from},
         Tail(changes), snapshot)

\* the changes of a complete stream of the pair that came from the line source
StreamedChanges(pair) ==
  LET q == CHOOSE q \in DOMAIN runs : runs[q].pair = pair /\ EndedDone(q) /\ ~runs[q].hit
      events == ChangeEvents(q)
  IN  [k \in 1..Len(events) |-> events[k].data]

Streamed(pair) == \E q \in DOMAIN runs : runs[q].pair = pair /\ EndedDone(q) /\ ~runs[q].hit

\* the outcomes of the loop of buildFileIndex from iteration i on, from the
\* outcomes in from, when changes(pair) are the changes each comparison yields
RECURSIVE AfterChain(_, _, _, _)
AfterChain(from, snapshots, i, changes) ==
  IF i >= Len(snapshots) THEN from
  ELSE LET processed == IF i = 0 THEN from
                        ELSE AfterChanges(from, changes[PairAt(snapshots, i)], snapshots[i + 1])
           marked == {IF s.ok THEN [s EXCEPT !.db = MarkIndexed(s.db, snapshots, i)] ELSE s :
                        s \in processed}
       IN  AfterChain(marked, snapshots, i + 1, changes)

\* what one uninterrupted buildFileIndex over the snapshots leaves in an empty
\* database, each pair compared from the line source
Uninterrupted(snapshots) ==
  AfterChain({[db |-> EmptyDB, ok |-> TRUE]}, snapshots, 0,
             [p \in ChainPairs |-> IF Streamed(p) THEN StreamedChanges(p) ELSE <<>>])

\* an invocation has returned after an earlier one was stopped, no snapshot
\* was deleted in between, and every pair of the chain has been streamed
ResumedToEnd ==
  /\ build.pc = "returned"
  /\ budget.deletes = MaxDeletes
  /\ \E q \in DOMAIN runs : runs[q].abandoned
  /\ \A i \in 1..(Len(build.snapshots) - 1) : Streamed(PairAt(build.snapshots, i))

\* C15: when a buildFileIndex run is interrupted at any point of the chain and
\* buildFileIndex is invoked again without force, the database (timelines,
\* aliases, history entries, progress) equals that of one uninterrupted run.
C15_ResumeEqualsUninterrupted ==
  ResumedToEnd => \E s \in Uninterrupted(build.snapshots) : s.ok /\ s.db = database

\* an iteration of the loop of buildFileIndex ends in this step: its progress
\* is written
C16_Step ==
  (Building /\ build'.i = build.i + 1) =>
    LET written == getIndexMetadata(database', Subvol)
        length == Len(build.snapshots)
    IN  /\ written.present
        /\ written.status \in {"building", "complete"}
        /\ written.status = "complete" =>
             /\ written.indexed_snapshots = length
             /\ written.total_snapshots = length
             /\ written.last_indexed_snapshot = build.snapshots[length].path
        /\ build.i + 1 < length => written.status = "building"

\* C16: whenever buildFileIndex writes status complete, indexedCount and
\* totalCount both equal the length of the chain it walks and
\* lastIndexedSnapshotPath is the newest snapshot of that chain; the progress
\* written after every earlier snapshot has status building.
C16_CompleteOnlyAfterLast == [][C16_Step]_vars

\* complete has been written at the end of a chain of several snapshots, after
\* building was written for the earlier ones
C16_Witness ==
  /\ build.pc = "returned"
  /\ Len(build.snapshots) >= 2
  /\ build.i = Len(build.snapshots)
  /\ getIndexMetadata(database, Subvol).status = "complete"
  /\ getIndexMetadata(database, Subvol).indexed_snapshots = Len(build.snapshots)
  /\ getIndexMetadata(build.before, Subvol) = getIndexMetadata(database, Subvol)

\* buildFileIndex has walked the whole chain and returned, and a complete
\* stream from the line source is known for every pair it compared
IndexedToEnd ==
  /\ build.pc = "returned"
  /\ build.i = Len(build.snapshots)
  /\ \A i \in 1..(Len(build.snapshots) - 1) : Streamed(PairAt(build.snapshots, i))

\* a comparison of the build was served from the ResultCache
ServedFromCache == \E n \in 1..Len(build.streams) : runs[build.streams[n]].hit

\* C17: the timelines and the history entries (count, change kind, size) that
\* buildFileIndex leaves are the same whether each pair's comparison is served
\* from the ResultCache or computed from the line source.
C17_CacheNotCorrectnessBearing ==
  IndexedToEnd =>
    \E s \in Uninterrupted(build.snapshots) :
      /\ s.ok
      /\ s.db.file_timelines = database.file_timelines
      /\ s.db.file_history_entries = database.file_history_entries

(***************************************************************************)
(* Properties of the pending orphan deletes                                *)
(***************************************************************************)
\* the positions of the events of run r that carry the change object ref
EmissionsOf(r, ref) ==
  {k \in 1..Len(runs[r].events) : runs[r].events[k].type = "change" /\ runs[r].events[k].ref = ref}

\* run r has read its line source to the end and yielded done
FlushedToDone(r) == EndedDone(r) /\ ~runs[r].hit

\* the entry of pendingOrphanDeletes at position i of run r was emitted once,
\* before done, with its kind and with the source path of its orphan
FlushedOnce(r, i) ==
  LET entry == runs[r].pendingOrphanDeletes[i]
      pending == Deref(heap, entry.val)
  IN  /\ Cardinality(EmissionsOf(r, entry.val)) = 1
      /\ \A k \in EmissionsOf(r, entry.val) :
           /\ k < Len(runs[r].events)
           /\ runs[r].events[k].data.type = pending.type
           /\ runs[r].events[k].data.path = pending.path
      /\ pending.type = TxtUnlink
      /\ pending.path = MapGet(runs[r].orphanToSource, entry.key)

\* no change object is carried by two events of one run
C18_AtMostOnce ==
  \A r \in RunIds : \A k \in 1..Len(runs[r].events) :
    runs[r].events[k].type = "change" => EmissionsOf(r, runs[r].events[k].ref) = {k}

\* C18 as stated: at end of stream every entry still in the
\* pending-orphan-delete map is emitted with its current kind (unlink by
\* default) and its original source path, before the done event, and a pending
\* entry is emitted at most once over the whole run.
C18_EveryPendingFlushed ==
  /\ C18_AtMostOnce
  /\ \A r \in RunIds :
       FlushedToDone(r) =>
         \A i \in 1..Len(runs[r].pendingOrphanDeletes) : FlushedOnce(r, i)

\* C18 as amended: at end of stream every entry still in the
\* pending-orphan-delete map whose source path is not an orphan path is emitted
\* once with its kind (unlink) and its source path, before the done event; an
\* entry whose source path is an orphan path is not emitted; no pending entry is
\* emitted twice over the run.
C18_NonOrphanPendingFlushed ==
  /\ C18_AtMostOnce
  /\ \A r \in RunIds :
       FlushedToDone(r) =>
         \A i \in 1..Len(runs[r].pendingOrphanDeletes) :
           IF isOrphanPath(Deref(heap, runs[r].pendingOrphanDeletes[i].val).path)
           THEN EmissionsOf(r, runs[r].pendingOrphanDeletes[i].val) = {}
           ELSE FlushedOnce(r, i)

\* a stream has ended with a pending delete of realdir that no removal line
\* finalized: it was flushed before done
C18_Witness ==
  /\ FlushedToDone(1)
  /\ MapHas(runs[1].pendingOrphanDeletes, PathOrphan100)
  /\ Deref(heap, MapGet(runs[1].pendingOrphanDeletes, PathOrphan100)).path = PathRealdir
  /\ EmissionsOf(1, MapGet(runs[1].pendingOrphanDeletes, PathOrphan100)) # {}

\* the step reads line in run r and the loop body runs on it (the line is not
\* the one that yields progress first)
Handles(r, line) == Reads(r, line) /\ runs'[r].pc # "yProgress"

\* the step of run r ends the pending delete of the orphan o100-5-0: the entry
\* leaves the map, and its change is emitted unless its source path is an
\* orphan path itself
Finalizes(r, always) ==
  LET ref == MapGet(runs[r].pendingOrphanDeletes, PathOrphan100)
  IN  /\ ~MapHas(runs'[r].pendingOrphanDeletes, PathOrphan100)
      /\ IF always \/ ~isOrphanPath(Deref(heap, ref).path)
         THEN /\ Len(NewEvents(r)) = 1
              /\ NewEvents(r)[1].type = "change"
              /\ NewEvents(r)[1].ref = ref
         ELSE NewEvents(r) = <<>>

\* what C19 as stated asks of one step
C19_StepAsStated ==
  \A r \in RunIds :
    \A line \in {LnRmdirOrphan, LnUnlinkOrphan, LnRmdirOrphanSub, LnUnlinkOrphanSub} :
      (Handles(r, line) /\ MapHas(runs[r].pendingOrphanDeletes, PathOrphan100))
        => Finalizes(r, TRUE)

\* C19 as stated: a pending orphan delete registered for the orphan path O is
\* finalized (emitted and removed from the pending map) when a later rmdir or
\* unlink line targets O itself or any sub-path of O.
C19_FinalizedBySubPath == [][C19_StepAsStated]_vars

\* what C19 as amended asks of one step
C19_Step ==
  \A r \in RunIds :
    /\ \A line \in {LnRmdirOrphan, LnUnlinkOrphan} :
         (Handles(r, line) /\ MapHas(runs[r].pendingOrphanDeletes, PathOrphan100))
           => Finalizes(r, FALSE)
    /\ \A line \in {LnRmdirOrphanSub, LnUnlinkOrphanSub} :
         Handles(r, line) =>
           /\ NewEvents(r) = <<>>
           /\ runs'[r].pendingOrphanDeletes = runs[r].pendingOrphanDeletes

\* C19 as amended: a pending orphan delete registered for O is finalized
\* (removed from the pending map, and emitted unless its source path is an
\* orphan path) when a later rmdir or unlink line targets O itself; a line that
\* targets a sub-path of O emits nothing and leaves the entry pending.
C19_FinalizedByExactPath == [][C19_Step]_vars

\* the pending delete of realdir has been finalized by the rmdir of its orphan
C19_Witness ==
  /\ runs[1].input = <<LnRenameToOrphan, LnRmdirOrphan>>
  /\ ~MapHas(runs[1].pendingOrphanDeletes, PathOrphan100)
  /\ Len(ChangeEvents(1)) = 1
  /\ ChangeEvents(1)[1].data.path = PathRealdir
  /\ ChangeEvents(1)[1].data.type = TxtRmdir

(***************************************************************************)
(* Order of the changes of one pair                                        *)
(***************************************************************************)
\* what C20 compares: status and currentPath of every timeline, and the
\* classification of every path
Classified(db) ==
  [timelines |-> {[currentPath |-> db.file_timelines[k].current_path,
                   status |-> db.file_timelines[k].status] :
                    k \in 1..Len(db.file_timelines)},
   paths |-> {[path |-> db.file_history_entries[k].path,
               changeType |-> db.file_history_entries[k].change_type] :
                k \in 1..Len(db.file_history_entries)}]

\* the changes in the order p
Permuted(changes, p) == [k \in 1..Len(changes) |-> changes[p[k]]]

\* buildFileIndex, started on an empty index, has just ended the iteration of
\* the first pair of the chain
FirstPairIndexed ==
  /\ build.pc = "loop"
  /\ build.since = 0
  /\ build.i = 2
  /\ Len(build.streams) = 1
  /\ database.file_history_entries # <<>>

\* C20: the order of the changes within one snapshot's stream does not affect
\* the result of indexing: processing any permutation of the changes of the
\* pair leaves every timeline with the same status and currentPath and every
\* path with the same classification.
C20_OrderIrrelevant ==
  FirstPairIndexed =>
    \A p \in Permutations(1..Len(Received(1))) :
      \A s \in AfterChanges({[db |-> EmptyDB, ok |-> TRUE]}, Permuted(Received(1), p),
                            build.snapshots[2]) :
        s.ok /\ Classified(s.db) = Classified(database)

(***************************************************************************)
(* Properties of buildFileIndex over streams of every kind                 *)
(***************************************************************************)
\* the comparison of stream n of the build ended with done and its iteration
\* has ended; the build started at the first snapshot, so stream n compared
\* snapshot n with snapshot n + 1
IndexedDone(n) ==
  /\ build.since = 0
  /\ build.pc \in {"loop", "stream", "returned"}
  /\ n \in 1..Len(build.streams)
  /\ build.i > n
  /\ EndedDone(build.streams[n])

\* the history entries stored for the snapshot at position k of the chain
EntriesAt(k) ==
  SelectSeq(database.file_history_entries,
            LAMBDA e : e.snapshot_path = build.snapshots[k].path)

\* the summary of the done event of run r
DoneSummary(r) == Last(runs[r].events).summary

\* the count that a summary gives to the bucket of a history changeKind
SummaryCount(summary, changeKind) ==
  CASE changeKind = "created" -> summary.added
    [] changeKind = "modified" -> summary.modified
    [] changeKind = "deleted" -> summary.deleted
    [] changeKind = "renamed" -> summary.renamed

\* C21: the indexer classifies the change kinds with the mapping of the done
\* summary: the snapshot of a comparison gets a history entry of a bucket
\* exactly when the summary of that comparison counts a change in that bucket.
C21_SameBucketsAsSummary ==
  \A n \in 1..Len(build.streams) :
    IndexedDone(n) =>
      \A changeKind \in {"created", "modified", "deleted", "renamed"} :
        SummaryCount(DoneSummary(build.streams[n]), changeKind) > 0
          <=> \E k \in 1..Len(EntriesAt(n + 1)) : EntriesAt(n + 1)[k].change_type = changeKind

(***************************************************************************)
(* Properties of rebuildIndex                                              *)
(***************************************************************************)
\* everything that the database holds for a snapshot root
RootRows(db, subvolumePath) ==
  LET ids == TimelineIds(db, subvolumePath)
  IN  [timelines |-> SelectSeq(db.file_timelines, LAMBDA row : row.subvolume_path = subvolumePath),
       aliases |-> SelectSeq(db.file_aliases, LAMBDA a : a.timeline_id \in ids),
       entries |-> SelectSeq(db.file_history_entries, LAMBDA e : e.timeline_id \in ids),
       progress |-> getIndexMetadata(db, subvolumePath)]

\* the step is the first part of rebuildIndex
Rebuilds == ~Building /\ build' # build /\ build'.pc = "loop" /\ build'.force

\* what C22 asks of one step: rebuildIndex leaves no row of its root before it
\* replays from index 0, and no step changes what the other root has
C22_Step ==
  /\ Rebuilds => /\ RootRows(database', Subvol) = RootRows(EmptyDB, Subvol)
                 /\ build'.i = 0
  /\ RootRows(database', OtherSubvol) = RootRows(database, OtherSubvol)

\* the rows of a root with the timeline ids replaced by their rank among the
\* ids of the root (AUTOINCREMENT goes on counting after a rebuild)
Ranked(db, subvolumePath) ==
  LET rows == RootRows(db, subvolumePath)
      ids == TimelineIds(db, subvolumePath)
      rank(id) == Cardinality({other \in ids : other <= id})
  IN  [timelines |-> [k \in 1..Len(rows.timelines) |->
                        [rows.timelines[k] EXCEPT !.id = rank(@)]],
       aliases |-> [k \in 1..Len(rows.aliases) |->
                      [rows.aliases[k] EXCEPT !.timeline_id = rank(@)]],
       entries |-> [k \in 1..Len(rows.entries) |->
                      [rows.entries[k] EXCEPT !.timeline_id = rank(@)]],
       progress |-> rows.progress]

\* the changes that the comparisons of the build have yielded to it, by pair
ReceivedByPair ==
  [p \in ChainPairs |->
     IF \E n \in 1..Len(build.streams) : runs[build.streams[n]].pair = p
     THEN Received(CHOOSE n \in 1..Len(build.streams) : runs[build.streams[n]].pair = p)
     ELSE <<>>]

\* when a rebuild has returned, the rows of its root are those that its own
\* replay writes into an empty database
C22_State ==
  (build.force /\ build.pc = "returned") =>
    \E s \in AfterChain({[db |-> EmptyDB, ok |-> TRUE]}, build.snapshots, 0, ReceivedByPair) :
      s.ok /\ Ranked(s.db, Subvol) = Ranked(database, Subvol)

EntryValues(entry, h) == [i \in 1..Len(entry.changes) |-> Deref(h, entry.changes[i])]

\* the step completes the aggregation pass of run r: the line source is read
\* to its end, the pending deletes are flushed and done is yielded
Completes(r) == runs[r].pc \in {"await", "yFlush"} /\ runs'[r].pc = "yDone"

\* the step writes the entry of key as the final aggregated set of run r
WritesResultOf(r, key) ==
  /\ Completes(r)
  /\ getCacheKey(runs[r].pair[1], runs[r].pair[2]) = key
  /\ streamCache'[key].present
  /\ streamCache'[key].changes = MapValues(runs'[r].changeMap)
  /\ EntryValues(streamCache'[key], heap') = Aggregated(r)'
  /\ streamCache'[key].summary = Summary(runs'[r].changeMap, heap')

\* in the step the consumer of run r leaves, or run r yields the error event
LeavesOrFails(r) ==
  \/ ~runs[r].abandoned /\ runs'[r].abandoned
  \/ runs[r].pc # "yError" /\ runs'[r].pc = "yError"

\* what C23 asks of one step
C23_Step ==
  /\ \A key \in CacheKeys :
       IF streamCache'[key] # streamCache[key]
       THEN \E r \in RunIds : WritesResultOf(r, key)
       ELSE EntryValues(streamCache'[key], heap') = EntryValues(streamCache[key], heap)
  /\ \A r \in RunIds : LeavesOrFails(r) => streamCache' = streamCache

\* what C23 asks of every state: an entry is the whole result of one run that
\* has completed
C23_State ==
  \A key \in CacheKeys :
    streamCache[key].present =>
      \E r \in RunIds :
        /\ ~runs[r].hit
        /\ runs[r].pc \in {"yDone", "closed"}
        /\ \E k \in 1..Len(runs[r].events) : runs[r].events[k].type = "done"
        /\ getCacheKey(runs[r].pair[1], runs[r].pair[2]) = key
        /\ streamCache[key].changes = MapValues(runs[r].changeMap)
        /\ streamCache[key].summary = Summary(runs[r].changeMap, heap)

\* C23: under any interleaving of comparisons, several for the same pair
\* included, a ResultCache entry is written only in the step in which a run
\* completes its aggregation pass, every entry present is the complete final
\* aggregated set of one single run, and the step in which a run is abandoned
\* by its consumer or yields the error event leaves the cache unchanged.
C23_CacheHoldsWholeResults == []C23_State /\ [][C23_Step]_vars

\* two comparisons of the same pair ran at the same time from the line source
\* and both completed: the entry is the result of the one that completed last
C23_Witness ==
  /\ runs[1].pair = <<Snap1, Snap2>>
  /\ runs[2].pair = <<Snap1, Snap2>>
  /\ ~runs[1].hit /\ ~runs[2].hit
  /\ EndedDone(1) /\ EndedDone(2)
  /\ runs[1].changeMap # <<>>
  /\ streamCache[getCacheKey(Snap1, Snap2)].present
  /\ streamCache[getCacheKey(Snap1, Snap2)].changes = MapValues(runs[lastClosed].changeMap)

(***************************************************************************)
(* Properties of getChangesFromStream                                      *)
(***************************************************************************)
\* the array that getChangesFromStream returns for run r
Returned(r) == [i \in 1..Len(runs[r].cmap) |-> Deref(heap, runs[r].cmap[i].val)]

\* the keys of a change map
KeysOf(m) == {m[i].key : i \in 1..Len(m)}

\* the size of the write change is the sum of the len values read for its path
SizeIsSum(r, change) ==
  (change.type = TxtWrite /\ change.path \in WrittenPaths(r)) =>
    OrZero(change.size) = WriteLenSum(runs[r].input, change.path, Len(runs[r].input))

\* C24: for every stream, getChangesFromStream returns the FileChange set that
\* the run aggregates (the same keys, each write size the sum of the len values
\* of its path), and the values in the driver's change map are left as the
\* driver aggregated them.
C24_BatchEqualsAggregate ==
  \A r \in RunIds :
    (runs[r].consumer = "getChangesFromStream" /\ EndedDone(r) /\ ~runs[r].hit) =>
      /\ KeysOf(runs[r].cmap) = KeysOf(runs[r].changeMap)
      /\ \A i \in 1..Len(Returned(r)) : SizeIsSum(r, Returned(r)[i])
      /\ \A i \in 1..Len(Aggregated(r)) : SizeIsSum(r, Aggregated(r)[i])

(***************************************************************************)
(* Renames into an orphan path                                             *)
(***************************************************************************)
\* line n of the stream of run r renames a path that is not an orphan into an
\* orphan path
RenamesIntoOrphan(r, n) ==
  LET info == LineTable[runs[r].input[n]]
  IN  /\ info.parsed.type = TxtRename
      /\ info.dm # NoDest
      /\ isOrphanPath(info.strippedDest)
      /\ ~isOrphanPath(info.strippedSource)

\* C25: for every rename line whose source A is not an orphan and whose
\* destination is an orphan path, the final aggregated set of a completed run
\* holds a FileChange of kind unlink or rmdir with path A, also when several
\* renames of the stream target the same orphan path.
C25_EveryOrphanedSourceDeleted ==
  \A r \in RunIds :
    (EndedDone(r) /\ ~runs[r].hit) =>
      \A n \in 1..Len(runs[r].input) :
        RenamesIntoOrphan(r, n) =>
          \E i \in 1..Len(Aggregated(r)) :
            /\ Aggregated(r)[i].type \in {TxtUnlink, TxtRmdir}
            /\ Aggregated(r)[i].path = LineTable[runs[r].input[n]].strippedSource

(***************************************************************************)
(* Properties of buildFileIndex over comparisons that fail                 *)
(***************************************************************************)
\* a step of buildFileIndex that records a snapshot as indexed after the
\* comparison with its predecessor
RecordsIndexed ==
  /\ build.pc = "stream"
  /\ getIndexMetadata(database', Subvol) # getIndexMetadata(database, Subvol)

\* C26: buildFileIndex records a snapshot as indexed only if the comparison
\* of its pair ended with the done event; when the comparison ends with an
\* error event the snapshot is not recorded.
C26_Step == RecordsIndexed => EndedDone(build.run)

C26_IndexedOnlyAfterDone == [][C26_Step]_vars

\* some comparison of the invocation ended with an error event
SomeStreamFailed ==
  \E n \in 1..Len(build.streams) :
    \E k \in 1..Len(runs[build.streams[n]].events) :
      runs[build.streams[n]].events[k].type = "error"

\* C28: over a non-empty chain whose comparisons all end with done,
\* buildFileIndex is never aborted: it does not reject, in particular not at
\* a rename whose new path is already the current path of another timeline,
\* and when it has returned the status of the root is complete.
C28_NeverAborts ==
  ~SomeStreamFailed =>
    /\ build.pc # "failed"
    /\ (build.pc = "returned" /\ build.snapshots # <<>>) =>
         getIndexMetadata(database, Subvol).status = "complete"

\* the positions of the history entries stored for snapshot k with the given
\* path and changeKind
EntriesFor(k, path, changeKind) ==
  {j \in 1..Len(EntriesAt(k)) :
     EntriesAt(k)[j].path = path /\ EntriesAt(k)[j].change_type = changeKind}

\* the positions in the final aggregated set of run r of the changes with the
\* given path whose kind is indexed as changeKind
ChangesOf(r, path, changeKind) ==
  {j \in 1..Len(Aggregated(r)) :
     Aggregated(r)[j].path = path /\ historyChangeType(Aggregated(r)[j].type) = changeKind}

\* C30: for one pair buildFileIndex appends at most one history entry per
\* (change kind, path) of the comparison: several write lines for one path
\* give a single modified entry, whose size is the accumulated total.
C30_OneEntryPerChange ==
  \A n \in 1..Len(build.streams) :
    IndexedDone(n) =>
      \A k \in 1..Len(Aggregated(build.streams[n])) :
        LET change == Aggregated(build.streams[n])[k]
            changeKind == historyChangeType(change.type)
        IN  changeKind # "skip" =>
              /\ Cardinality(EntriesFor(n + 1, change.path, changeKind))
                   <= Cardinality(ChangesOf(build.streams[n], change.path, changeKind))
              /\ change.type = TxtWrite =>
                   \E j \in EntriesFor(n + 1, change.path, changeKind) :
                     EntriesAt(n + 1)[j].size = change.size

(***************************************************************************)
(* Properties of the lookup of the timeline of a rename                    *)
(***************************************************************************)
\* the step indexes a rename: it appends a history entry of kind renamed
IndexesRename ==
  /\ Len(database'.file_history_entries) = Len(database.file_history_entries) + 1
  /\ Last(database'.file_history_entries).change_type = "renamed"

\* C29: when a rename with previousPath P is indexed while a timeline of the
\* root has currentPath P, the rename is attached to that timeline, also when
\* another timeline lists P among its aliases.
C29_Step ==
  IndexesRename =>
    \A i \in RowsAt(database, Last(database'.file_history_entries).previous_path) :
      Last(database'.file_history_entries).timeline_id = database.file_timelines[i].id

C29_RenameFollowsCurrentPath == [][C29_Step]_vars

(***************************************************************************)
(* Properties of two buildFileIndex invocations at the same time           *)
(***************************************************************************)
\* both invocations have returned
BothReturned ==
  /\ build.pc = "returned"
  /\ build.peer # <<>>
  /\ build.peer[1].pc = "returned"

\* C27: when two invocations of buildFileIndex for one root run at the same
\* time, interleaved at their await points, the changes of each pair are
\* applied once: the timelines, aliases, history entries and progress record
\* are those that one invocation alone leaves, no entry is duplicated.
C27_ConcurrentEqualsSequential ==
  BothReturned =>
    \E s \in Uninterrupted(build.snapshots) :
      s.ok /\ RootRows(s.db, Subvol) = RootRows(database, Subvol)

====
